---- MODULE Spec2Model ----
(***************************************************************************)
(* DCA shock bot: the parameter normaliser (clampParams) and the period    *)
(* loop of the projection engine (simulateDCA) of src/index.js.            *)
(*                                                                         *)
(* Numbers.  A JavaScript value is a record [t, n, s]: t is the kind       *)
(* ("num", "nan", "inf", "ninf", "str", "null", "undef", or "missing" for  *)
(* a key the object does not have), n the value of a finite number in      *)
(* hundredths (Scale), s the characters of a string.  Money is kept in     *)
(* hundredths as well; growth, fee and shock multipliers are kept in       *)
(* 1/RateScale and every product is rounded to the grid, which stands for  *)
(* the rounding of the double arithmetic of the source.                    *)
(***************************************************************************)
EXTENDS Integers, Sequences, FiniteSets, TLC

VARIABLES
  raw,               \* the raw parameter bundle handed to clampParams / simulateDCA
  out,               \* the object returned by clampParams
  pc,                \* "ready", "clamped", "parsed", "loop", "done"
  p,                 \* simulateDCA: the clamped parameters
  periodsPerYear, totalPeriods, rPeriod, feeFactor,
  portfolio, contributed, peak, maxDrawdown,
  series, milestones,
  shockPeriod, preShockPeak, recoveryPeriods, shockApplied, afterShockCounter,
  period,            \* the loop variable
  shockFired,        \* history: the periods in which the shock multiplier was applied
  result,            \* the object simulateDCA returns
  conv,              \* a call of a rate conversion: function, argument, result
  now,               \* Date.now(), in milliseconds
  ticks,             \* the number of times the clock has advanced
  lastCall,          \* the Map lastCall: user -> timestamp of the last accepted call
  userState,         \* the Map userState: user -> stored parameters
  call,              \* history: the last call of isRateLimited and what it returned
  accepted,          \* history: per user, the last accepted call as <<time, threshold>>
  inv,               \* history: the last handler invocation and what it did
  first,             \* what an earlier call of simulateDCA with the same config returned
  text,              \* parseDcaCommand: the characters of the command text
  chart,             \* quickChartUrl: the series it is given and the values it samples
  seen,              \* history: user -> the time of the last update from the user
  tasks,             \* the handlers started so far, each up to its current await
  mix                \* /mix: the words after the command and the allocations made of them

simVars == <<p, periodsPerYear, totalPeriods, rPeriod, feeFactor, portfolio, contributed,
             peak, maxDrawdown, series, milestones, shockPeriod, preShockPeak,
             recoveryPeriods, shockApplied, afterShockCounter, period, shockFired, result>>

botVars == <<now, ticks, lastCall, userState, call, accepted, inv>>

auxVars == <<chart, seen, tasks, mix>>

envVars == <<botVars, first, text, auxVars>>

vars == <<raw, out, pc, simVars, conv, envVars>>

\* hundredths: the grid of configuration numbers and of money
Scale == 10 * 10

\* the grid of the per-period multipliers
RateScale == Scale * Scale

(***************************************************************************)
(* JavaScript values                                                       *)
(***************************************************************************)
Num(n) == [t |-> "num", n |-> n, s |-> <<>>]

NaN == [t |-> "nan", n |-> 0, s |-> <<>>]

PosInf == [t |-> "inf", n |-> 0, s |-> <<>>]

NegInf == [t |-> "ninf", n |-> 0, s |-> <<>>]

Null == [t |-> "null", n |-> 0, s |-> <<>>]

Undefined == [t |-> "undef", n |-> 0, s |-> <<>>]

Missing == [t |-> "missing", n |-> 0, s |-> <<>>]

Str(s) == [t |-> "str", n |-> 0, s |-> s]

DigitChars == <<"0", "1", "2", "3", "4", "5", "6", "7", "8", "9">>

IsDigit(c) == \E i \in 1..10 : DigitChars[i] = c

DigitVal(c) == (CHOOSE i \in 1..10 : DigitChars[i] = c) - 1

RECURSIVE TrimLeft(_)
TrimLeft(s) == IF s # <<>> /\ Head(s) = " " THEN TrimLeft(Tail(s)) ELSE s

RECURSIVE TrimRight(_)
TrimRight(s) ==
  IF s # <<>> /\ s[Len(s)] = " " THEN TrimRight(SubSeq(s, 1, Len(s) - 1)) ELSE s

RECURSIVE DigitsValue(_)
DigitsValue(s) ==
  IF s = <<>> THEN 0
  ELSE 10 * DigitsValue(SubSeq(s, 1, Len(s) - 1)) + DigitVal(s[Len(s)])

AllDigits(s) == s # <<>> /\ \A i \in 1..Len(s) : IsDigit(s[i])

\* a decimal literal without exponent: digits with at most one point among
\* them and at least one digit
IsDecimal(s) ==
  /\ \E i \in 1..Len(s) : IsDigit(s[i])
  /\ \A i \in 1..Len(s) : IsDigit(s[i]) \/ s[i] = "."
  /\ Cardinality({i \in 1..Len(s) : s[i] = "."}) <= 1

\* the place of the point of a decimal literal, or past its end
PointOf(s) ==
  IF \E i \in 1..Len(s) : s[i] = "." THEN CHOOSE i \in 1..Len(s) : s[i] = "."
  ELSE Len(s) + 1

\* the digits f after the point in 1/Scale; the digits after the second are
\* below the resolution of the numbers here and are dropped
FractionValue(f) ==
  (IF Len(f) >= 1 THEN DigitVal(f[1]) * (Scale \div 10) ELSE 0)
  + (IF Len(f) >= 2 THEN DigitVal(f[2]) ELSE 0)

\* the value in 1/Scale of a decimal literal with its point at place point
DecimalValue(s, point) ==
  DigitsValue(SubSeq(s, 1, point - 1)) * Scale + FractionValue(SubSeq(s, point + 1, Len(s)))

\* an unsigned decimal literal b under a sign, anything else is NaN
DecimalToNumber(b, sign) ==
  IF IsDecimal(b) THEN Num(sign * DecimalValue(b, PointOf(b))) ELSE NaN

\* a string without blanks around it: the empty string is 0, an optional
\* sign precedes a decimal literal
TrimmedToNumber(u) ==
  IF u = <<>> THEN Num(0)
  ELSE IF Head(u) = "-" THEN DecimalToNumber(Tail(u), 0 - 1)
  ELSE IF Head(u) = "+" THEN DecimalToNumber(Tail(u), 1)
  ELSE DecimalToNumber(u, 1)

\* StringToNumber of ECMAScript for strings of digits, point, sign and blanks:
\* white space is trimmed first
StringToNumber(s) == TrimmedToNumber(TrimRight(TrimLeft(s)))

\* Number(x)
ToNumber(x) ==
  CASE x.t = "num" -> x
    [] x.t = "nan" -> x
    [] x.t = "inf" -> x
    [] x.t = "ninf" -> x
    [] x.t = "null" -> Num(0)
    [] x.t = "str" -> StringToNumber(x.s)
    [] OTHER -> NaN

IsFinite(x) == x.t = "num"

toNumWrong(x, fallback) == ToNumber(x)

toNum(x, fallback) ==
  LET n == ToNumber(x) IN IF IsFinite(n) THEN n ELSE fallback

\* a <= b on numbers other than NaN
NumLE(a, b) ==
  \/ a.t = "ninf"
  \/ b.t = "inf"
  \/ a.t = "num" /\ b.t = "num" /\ a.n <= b.n

MathMax(a, b) == IF a.t = "nan" \/ b.t = "nan" THEN NaN ELSE IF NumLE(a, b) THEN b ELSE a

MathMin(a, b) == IF a.t = "nan" \/ b.t = "nan" THEN NaN ELSE IF NumLE(a, b) THEN a ELSE b

clampNoMax(value, min, max) == MathMax(min, value)

clamp(value, min, max) == MathMin(max, MathMax(min, value))

(***************************************************************************)
(* Configuration                                                           *)
(***************************************************************************)
Keys == {"weeklyAmount", "years", "annualReturnPct", "annualFeePct",
         "shockPct", "shockYear", "frequency", "inflationPct"}

Weekly == <<"w", "e", "e", "k", "l", "y">>

Monthly == <<"m", "o", "n", "t", "h", "l", "y">>

DEFAULTS ==
  [weeklyAmount |-> Num(100 * Scale), years |-> Num(10 * Scale),
   annualReturnPct |-> Num(7 * Scale), annualFeePct |-> Num(0),
   shockPct |-> Null, shockYear |-> Null,
   frequency |-> Str(Weekly), inflationPct |-> Num(3 * Scale)]

LIMITS ==
  [weeklyAmount |-> [min |-> Num(0), max |-> Num(1000000 * Scale)],
   years |-> [min |-> Num(0), max |-> Num(50 * Scale)],
   annualReturnPct |-> [min |-> Num(0 - 100 * Scale), max |-> Num(200 * Scale)],
   annualFeePct |-> [min |-> Num(0), max |-> Num(5 * Scale)],
   shockPct |-> [min |-> Num(0 - 95 * Scale), max |-> Num(0)],
   inflationPct |-> [min |-> Num(0), max |-> Num(20 * Scale)]]

SpreadOverSession(q) ==
  [k \in Keys |-> IF q[k].t # "missing" THEN q[k]
                  ELSE IF 1 \in DOMAIN userState THEN userState[1][k] ELSE DEFAULTS[k]]

\* { ...DEFAULTS, ...p }: a key of p wins whenever p has it, also when its
\* value is undefined or null
Spread(q) == [k \in Keys |-> IF q[k].t = "missing" THEN DEFAULTS[k] ELSE q[k]]

\* the default shock of the fallbacks in clampParams
ShockPctFallback == Num(0 - 30 * Scale)

ShockYearFallback == Num(3 * Scale)

\* lines 235-242: the shock is kept only when neither component is null
NormalizeShockKeepPartial(o0, years) ==
  IF o0.shockPct # Null /\ o0.shockYear # Null
  THEN [shockPct |-> clamp(toNum(o0.shockPct, ShockPctFallback),
                           LIMITS.shockPct.min, LIMITS.shockPct.max),
        shockYear |-> clamp(toNum(o0.shockYear, ShockYearFallback), Num(0), years)]
  ELSE [shockPct |-> o0.shockPct, shockYear |-> o0.shockYear]

NormalizeShockRawYears(o0, years) ==
  IF o0.shockPct # Null /\ o0.shockYear # Null
  THEN [shockPct |-> clamp(toNum(o0.shockPct, ShockPctFallback),
                           LIMITS.shockPct.min, LIMITS.shockPct.max),
        shockYear |-> clamp(toNum(o0.shockYear, ShockYearFallback), Num(0),
                            toNum(o0.years, DEFAULTS.years))]
  ELSE [shockPct |-> Null, shockYear |-> Null]

NormalizeShock(o0, years) ==
  LET shockOn == o0.shockPct # Null /\ o0.shockYear # Null IN
  IF ~shockOn
  THEN [shockPct |-> Null, shockYear |-> Null]
  ELSE [shockPct |-> clamp(toNum(o0.shockPct, ShockPctFallback),
                           LIMITS.shockPct.min, LIMITS.shockPct.max),
        shockYear |-> clamp(toNum(o0.shockYear, ShockYearFallback), Num(0), years)]

clampParamsShockFirst(q) ==
  LET o0 == Spread(q)
      weeklyAmount == clamp(toNum(o0.weeklyAmount, DEFAULTS.weeklyAmount),
                            LIMITS.weeklyAmount.min, LIMITS.weeklyAmount.max)
      years == clamp(toNum(o0.years, DEFAULTS.years), LIMITS.years.min, LIMITS.years.max)
      annualReturnPct == clamp(toNum(o0.annualReturnPct, DEFAULTS.annualReturnPct),
                               LIMITS.annualReturnPct.min, LIMITS.annualReturnPct.max)
      annualFeePct == clamp(toNum(o0.annualFeePct, DEFAULTS.annualFeePct),
                            LIMITS.annualFeePct.min, LIMITS.annualFeePct.max)
      shock == NormalizeShock(o0, toNum(o0.years, DEFAULTS.years))
  IN [o0 EXCEPT
        !.weeklyAmount = weeklyAmount,
        !.years = years,
        !.annualReturnPct = annualReturnPct,
        !.annualFeePct = annualFeePct,
        !.shockPct = shock.shockPct,
        !.shockYear = shock.shockYear]

\* lines 227-245
clampParams(q) ==
  LET o0 == Spread(q)
      weeklyAmount == clamp(toNum(o0.weeklyAmount, DEFAULTS.weeklyAmount),
                            LIMITS.weeklyAmount.min, LIMITS.weeklyAmount.max)
      years == clamp(toNum(o0.years, DEFAULTS.years), LIMITS.years.min, LIMITS.years.max)
      annualReturnPct == clamp(toNum(o0.annualReturnPct, DEFAULTS.annualReturnPct),
                               LIMITS.annualReturnPct.min, LIMITS.annualReturnPct.max)
      annualFeePct == clamp(toNum(o0.annualFeePct, DEFAULTS.annualFeePct),
                            LIMITS.annualFeePct.min, LIMITS.annualFeePct.max)
      shock == NormalizeShock(o0, years)
  IN [o0 EXCEPT
        !.weeklyAmount = weeklyAmount,
        !.years = years,
        !.annualReturnPct = annualReturnPct,
        !.annualFeePct = annualFeePct,
        !.shockPct = shock.shockPct,
        !.shockYear = shock.shockYear]

(***************************************************************************)
(* Raw parameter bundles                                                   *)
(***************************************************************************)
\* at most MaxKeys keys of a raw bundle are present
MaxKeys == 3

RawVals ==
  {Undefined, Null, NaN, PosInf, NegInf, Str(Monthly), Str(<<"1", "5">>), Str(<<" ">>),
   Num(0 - 101 * Scale), Num(0 - 5 * Scale), Num(250), Num(60 * Scale),
   Num(2000000 * Scale)}

KeySets == { x \in SUBSET Keys : Cardinality(x) <= MaxKeys }

(***************************************************************************)
(* Arithmetic of the engine                                                *)
(***************************************************************************)
Max(a, b) == IF a >= b THEN a ELSE b

Min(a, b) == IF a <= b THEN a ELSE b

\* m * g for money m >= 0 and a multiplier g >= 0 in 1/RateScale, rounded
MulRate(m, g) ==
  (m \div RateScale) * g + ((m % RateScale) * g + RateScale \div 2) \div RateScale

\* d / q as a fraction in 1/RateScale for money 0 <= d <= q, q > 0
DivRate(d, q) ==
  LET a == d * Scale IN ((a \div q) * Scale) + (((a % q) * Scale) \div q)

\* acc times g^n in 1/RateScale, every product rounded up; the products of a g
\* above 1 grow, and are cut off once above cap >= 1; the n products are taken
\* half by half to keep the evaluation shallow
RECURSIVE PowFrom(_, _, _, _)
PowFrom(acc, g, n, cap) ==
  IF acc > cap \/ n = 0 THEN acc
  ELSE IF n = 1 THEN (acc * g + RateScale - 1) \div RateScale
  ELSE PowFrom(PowFrom(acc, g, n \div 2, cap), g, n - n \div 2, cap)

\* g^n in 1/RateScale
PowUp(g, n, cap) == PowFrom(RateScale, g, n, cap)

RECURSIVE RootSearch(_, _, _, _)
RootSearch(x, n, lo, hi) ==
  IF lo >= hi THEN lo
  ELSE LET mid == (lo + hi + 1) \div 2 IN
       IF PowUp(mid, n, Max(x, RateScale)) <= x THEN RootSearch(x, n, mid, hi)
       ELSE RootSearch(x, n, lo, mid - 1)

\* Math.pow(x, 1/n) for x >= 0 in 1/RateScale: the largest multiplier on the
\* grid whose n-th power does not exceed x
Root(x, n) == RootSearch(x, n, 0, Max(x, RateScale))

\* pct / 100 as a fraction in 1/RateScale, pct a number in hundredths
Fraction(pct) == (pct * RateScale) \div (100 * Scale)

weeklyRateFloorZero(annualPct) ==
  LET a == Fraction(annualPct) IN
  IF a <= 0 - RateScale THEN 0 ELSE Root(RateScale + a, 52) - RateScale

weeklyRateFromAnnual(annualPct) ==
  LET a == Fraction(annualPct) IN
  IF a <= 0 - RateScale THEN 0 - RateScale ELSE Root(RateScale + a, 52) - RateScale

weeklyFeeFactorNoLowGuard(feePct) ==
  LET f == Fraction(feePct) IN
  IF f >= RateScale THEN 0 ELSE Root(RateScale - f, 52)

weeklyFeeFactorFromAnnual(feePct) ==
  LET f == Fraction(feePct) IN
  IF f <= 0 THEN RateScale
  ELSE IF f >= RateScale THEN 0
  ELSE Root(RateScale - f, 52)

IsMonthly(q) == q.frequency = Str(Monthly)

PeriodsPerYearAlwaysWeekly(q) == 52

PeriodsPerYear(q) == IF IsMonthly(q) THEN 12 ELSE 52

TotalPeriodsAtLeastOne(q) == Max(1, (q.years.n * PeriodsPerYear(q)) \div Scale)

TotalPeriodsCeil(q) == Max(0, (q.years.n * PeriodsPerYear(q) + Scale - 1) \div Scale)

TotalPeriods(q) == Max(0, (q.years.n * PeriodsPerYear(q)) \div Scale)

PeriodRate(q) ==
  IF IsMonthly(q) THEN Root(RateScale + Fraction(q.annualReturnPct.n), 12) - RateScale
  ELSE weeklyRateFromAnnual(q.annualReturnPct.n)

PeriodFeeFactor(q) ==
  IF IsMonthly(q) THEN Root(RateScale - Fraction(q.annualFeePct.n), 12)
  ELSE weeklyFeeFactorFromAnnual(q.annualFeePct.n)

\* Math.floor of a number in hundredths, as an integer
Floor(n) == n \div Scale

ShockPeriodNoMin(q) ==
  IF q.shockPct # Null /\ q.shockYear # Null
  THEN Num(Min(TotalPeriods(q), Floor(q.shockYear.n) * PeriodsPerYear(q)) * Scale)
  ELSE Null

\* lines 301-304; the period number is kept as a number in hundredths
ShockPeriod(q) ==
  IF q.shockPct # Null /\ q.shockYear # Null
  THEN Num(Min(TotalPeriods(q), Max(1, Floor(q.shockYear.n) * PeriodsPerYear(q))) * Scale)
  ELSE Null

GrowNoOne(v, r) == MulRate(v, Max(0, r))

\* line 315: portfolio *= 1 + rPeriod
Grow(v, r) == MulRate(v, RateScale + r)

FeeAdded(v, f) == IF f < RateScale THEN MulRate(v, 2 * RateScale - f) ELSE v

\* line 316: if (feeFactor < 1) portfolio *= feeFactor
Fee(v, f) == IF f < RateScale THEN MulRate(v, f) ELSE v

ShockHalved(v, pct) == MulRate(v, RateScale + Fraction(pct) \div 2)

ShockSignFlipped(v, pct) == MulRate(v, RateScale - Fraction(pct))

\* line 320: portfolio *= 1 + p.shockPct / 100
Shock(v, pct) == MulRate(v, RateScale + Fraction(pct))

DrawdownOverValue(v, k) == IF v > 0 THEN 0 - DivRate(k - v, v) ELSE 0

\* lines 327-330: the drawdown of value v below peak k, in 1/RateScale
Drawdown(v, k) == 0 - DivRate(k - v, k)

Put(m, k, v) == [x \in DOMAIN m \cup {k} |-> IF x = k THEN v ELSE m[x]]

NoMilestones == [x \in {} |-> 0]

NoResult ==
  [contributed |-> 0, finalValue |-> 0, gains |-> 0, maxDrawdownPct |-> 0,
   recoveryWeeks |-> Null, inflationAdjusted |-> Num(0)]

\* the truthiness of a value, as the operator || tests it
Truthy(x) ==
  CASE x.t \in {"null", "undef", "nan", "missing"} -> FALSE
    [] x.t = "num" -> x.n # 0
    [] x.t = "str" -> x.s # <<>>
    [] OTHER -> TRUE

\* powers are followed up to 100 = Scale
PowCap == Scale * RateScale

\* Math.pow(g, y) for a multiplier g >= 1 in 1/RateScale and an exponent y >= 0
\* in hundredths: the whole powers times the Scale-th root of the rest
PowFrac(g, y) ==
  MulRate(PowFrom(RateScale, g, y \div Scale, PowCap),
          IF y % Scale = 0 THEN RateScale
          ELSE Root(PowFrom(RateScale, g, y % Scale, PowCap), Scale))

\* m / g for money m >= 0 and a multiplier g > 0 in 1/RateScale
DivMoney(m, g) == (m \div g) * RateScale + ((m % g) * RateScale) \div g

\* line 352: (p.inflationPct || 3)
InflationPctOr3(q) == IF Truthy(q.inflationPct) THEN q.inflationPct ELSE Num(3 * Scale)

\* line 352: Math.pow(1 + (p.inflationPct || 3) / 100, p.years), for an
\* inflation of 0 or more; NaN where the division by 100 gives NaN and
\* years is not 0
inflationFactor(q) ==
  LET x == ToNumber(InflationPctOr3(q)) IN
  IF q.years.n = 0 THEN Num(RateScale)
  ELSE IF x.t = "num" THEN Num(PowFrac(RateScale + Fraction(x.n), q.years.n))
  ELSE NaN

\* line 353: portfolio / inflationFactor
inflationAdjusted(v, factor) ==
  IF factor.t = "num" THEN Num(DivMoney(v, factor.n)) ELSE NaN

(***************************************************************************)
(* Rate limiting and sessions                                              *)
(***************************************************************************)
\* lines 96-101, in milliseconds
RATE_LIMIT ==
  [command |-> 900, button |-> 350, cleanupInterval |-> 60000, maxAge |-> 300000]

\* the ids of the users that talk to the bot
Users == {1, 2}

\* the clock advances at most MaxTicks times
MaxTicks == 2

\* Date.now() when the bot starts
StartTime == 1000 * RATE_LIMIT.maxAge

\* the amounts of time between two events
TickSteps ==
  {RATE_LIMIT.button - 1, RATE_LIMIT.button, RATE_LIMIT.command - 1,
   RATE_LIMIT.command, RATE_LIMIT.maxAge, RATE_LIMIT.maxAge + 1}

\* an empty Map
NoEntries == [x \in {} |-> 0]

NoCall == [user |-> 0, ms |-> 0, limited |-> FALSE, flip |-> FALSE]

\* renderCard was not called
NoCard == [calls |-> <<>>, thrown |-> FALSE]

\* no update has been handled: the handler and the update it ran for, whether
\* it called isRateLimited and what that returned, the calls of simulateDCA,
\* whether userState was written, the calls of the Telegram API in order, the
\* calls of renderCard among them, whether the handler ended by throwing, and
\* the number of updates handled so far
NoInvocation ==
  [handler |-> "none", updateType |-> "none", user |-> 0, checked |-> FALSE,
   limited |-> FALSE, sims |-> 0, wrote |-> FALSE, calls |-> <<>>, card |-> NoCard,
   thrown |-> FALSE, update |-> 0]

NoFirst == [taken |-> FALSE, result |-> NoResult, series |-> <<>>, milestones |-> NoMilestones]

\* quickChartUrl has not been called
NoChart == [series |-> <<>>, sampled |-> <<>>, called |-> FALSE]

\* no /mix has been handled
NoMix == [args |-> <<>>, allocations |-> <<>>, called |-> FALSE]

\* nothing has been charted and no update has come in
AuxIdle == chart = NoChart /\ seen = NoEntries /\ tasks = <<>> /\ mix = NoMix

\* the state of the bot after the module is loaded
EnvIdle ==
  /\ now = StartTime
  /\ ticks = 0
  /\ lastCall = NoEntries
  /\ userState = NoEntries
  /\ call = NoCall
  /\ accepted = [u \in Users |-> <<>>]
  /\ inv = NoInvocation
  /\ first = NoFirst
  /\ text = <<>>
  /\ AuxIdle

\* lines 126-132 on the Map lc at time t: what is returned and the Map afterwards
isRateLimitedAlwaysStamps(lc, userId, ms, t) ==
  LET last == IF userId \in DOMAIN lc /\ lc[userId] # 0 THEN lc[userId] ELSE 0 IN
  [limited |-> t - last < ms, lastCall |-> Put(lc, userId, t)]

isRateLimited(lc, userId, ms, t) ==
  LET last == IF userId \in DOMAIN lc /\ lc[userId] # 0 THEN lc[userId] ELSE 0 IN
  IF t - last < ms THEN [limited |-> TRUE, lastCall |-> lc]
  ELSE [limited |-> FALSE, lastCall |-> Put(lc, userId, t)]

StaleAtMaxAge(lc, t) == {u \in DOMAIN lc : t - lc[u] >= RATE_LIMIT.maxAge}

\* lines 141-147: the entries of lastCall that are deleted at time t
Stale(lc, t) == {u \in DOMAIN lc : t - lc[u] > RATE_LIMIT.maxAge}

\* a Map without the keys ks
Without(m, ks) == [x \in DOMAIN m \ ks |-> m[x]]

\* time passes
Tick ==
  /\ ticks < MaxTicks
  /\ \E d \in TickSteps : now' = now + d
  /\ ticks' = ticks + 1
  /\ UNCHANGED <<raw, out, pc, simVars, conv, lastCall, userState, call, accepted, inv,
                 first, text, auxVars>>

\* lines 126-132: a handler asks whether a user is rate limited
IsRateLimitedCall ==
  \E u \in Users, ms \in {RATE_LIMIT.command, RATE_LIMIT.button} :
    LET r == isRateLimited(lastCall, u, ms, now) IN
    /\ lastCall' = r.lastCall
    /\ call' = [user |-> u, ms |-> ms, limited |-> r.limited, flip |-> ~call.flip]
    /\ accepted' = IF r.limited THEN accepted ELSE [accepted EXCEPT ![u] = <<now, ms>>]
    /\ UNCHANGED <<raw, out, pc, simVars, conv, now, ticks, userState, inv, first, text, auxVars>>

\* lines 137-152: the timer runs cleanupStaleSessions
CleanupStaleSessions ==
  /\ lastCall' = Without(lastCall, Stale(lastCall, now))
  /\ userState' = Without(userState, Stale(lastCall, now))
  /\ UNCHANGED <<raw, out, pc, simVars, conv, now, ticks, call, accepted, inv, first, text, auxVars>>

(***************************************************************************)
(* Specification of clampParams alone                                      *)
(***************************************************************************)
NoConversion == [fn |-> "none", arg |-> 0, res |-> 0]

SimIdle ==
  /\ p = DEFAULTS
  /\ periodsPerYear = 52
  /\ totalPeriods = 0
  /\ rPeriod = 0
  /\ feeFactor = RateScale
  /\ portfolio = 0
  /\ contributed = 0
  /\ peak = 0
  /\ maxDrawdown = 0
  /\ series = <<>>
  /\ milestones = NoMilestones
  /\ shockPeriod = Null
  /\ preShockPeak = Null
  /\ recoveryPeriods = Null
  /\ shockApplied = FALSE
  /\ afterShockCounter = 0
  /\ period = 1
  /\ shockFired = <<>>
  /\ result = NoResult

InitClamp ==
  /\ \E ks \in KeySets : \E f \in [ks -> RawVals] :
        raw = [k \in Keys |-> IF k \in ks THEN f[k] ELSE Missing]
  /\ out = DEFAULTS
  /\ pc = "ready"
  /\ SimIdle
  /\ conv = NoConversion
  /\ EnvIdle

\* a caller applies clampParams to the raw bundle
ClampCall ==
  /\ pc = "ready"
  /\ out' = clampParams(raw)
  /\ pc' = "clamped"
  /\ UNCHANGED <<raw, simVars, conv, envVars>>

NextClamp == ClampCall

SpecClamp == InitClamp /\ [][NextClamp]_vars

(***************************************************************************)
(* Specification of simulateDCA                                            *)
(***************************************************************************)
\* the longest horizon simulated, in whole years
MaxYears == 2

SimYears == {Num(0), Num(10), Num(50), Num(150)} \cup {Num(y * Scale) : y \in 1..MaxYears}

SimAmounts == {Num(0), Num(100 * Scale)}

SimReturns == {Num(0 - 100 * Scale), Num(0 - 50 * Scale), Num(0), Num(100 * Scale)}

SimFees == {Missing, Num(Scale)}

SimShockPcts == {Missing, Num(0 - 30 * Scale), Num(0 - 95 * Scale), Num(0)}

SimShockYears == {Null, Num(0), Num(50), Num(Scale), Num(150)}

SimFrequencies == {Missing, Str(Monthly)}

Init ==
  /\ \E a \in SimAmounts, y \in SimYears, r \in SimReturns, f \in SimFees,
        sp \in SimShockPcts, sy \in SimShockYears, fr \in SimFrequencies :
        raw = [weeklyAmount |-> a, years |-> y, annualReturnPct |-> r, annualFeePct |-> f,
               shockPct |-> sp, shockYear |-> sy, frequency |-> fr, inflationPct |-> Missing]
  /\ out = DEFAULTS
  /\ pc = "ready"
  /\ SimIdle
  /\ conv = NoConversion
  /\ EnvIdle

\* lines 278-309: simulateDCA up to the loop
SimulateStart ==
  /\ pc = "ready"
  /\ LET q == clampParams(raw) IN
       /\ p' = q
       /\ periodsPerYear' = PeriodsPerYear(q)
       /\ totalPeriods' = TotalPeriods(q)
       /\ rPeriod' = PeriodRate(q)
       /\ feeFactor' = PeriodFeeFactor(q)
       /\ shockPeriod' = ShockPeriod(q)
  /\ portfolio' = 0
  /\ contributed' = 0
  /\ peak' = 0
  /\ maxDrawdown' = 0
  /\ series' = <<>>
  /\ milestones' = NoMilestones
  /\ preShockPeak' = Null
  /\ recoveryPeriods' = Null
  /\ shockApplied' = FALSE
  /\ afterShockCounter' = 0
  /\ period' = 1
  /\ pc' = "loop"
  /\ UNCHANGED <<raw, out, shockFired, result, conv, envVars>>

\* lines 312-323: the value of the portfolio at the end of a period
PeriodValueGrowFirst(v, amount, r, f, shocked, pct) ==
  LET w == Fee(Grow(v, r), f) + amount IN IF shocked THEN Shock(w, pct) ELSE w

PeriodValue(v, amount, r, f, shocked, pct) ==
  LET w == Fee(Grow(v + amount, r), f) IN IF shocked THEN Shock(w, pct) ELSE w

\* line 319: preShockPeak = peak > 0 ? peak : portfolio
RecoveryTarget(pk, v) == Num(IF pk > 0 THEN pk ELSE v)

CountingAgain(applied, rec, target) == applied /\ target # Null

\* line 332: shockApplied && recoveryPeriods === null && preShockPeak !== null
Counting(applied, rec, target) == applied /\ rec = Null /\ target # Null

RecoveredAtOnce(v, target) == TRUE

\* line 334: portfolio >= preShockPeak
Recovered(v, target) == v >= target.n

AtYearBoundaryFromTwo(per, year, ppy) == per = year * ppy /\ year > 1

\* line 341: period === year * periodsPerYear && year > 0
AtYearBoundary(per, year, ppy) == per = year * ppy /\ year > 0

\* the portfolio value after periods from..to of the loop, v being the value
\* before period from; the range is taken half by half to keep the evaluation
\* shallow, and an empty portfolio that nothing is paid into stays empty
RECURSIVE RunValue(_, _, _, _, _, _, _, _)
RunValue(v, amount, r, f, sp, pct, from, to) ==
  IF (v = 0 /\ amount = 0) \/ from > to THEN v
  ELSE IF from = to THEN PeriodValue(v, amount, r, f, sp = Num(from * Scale), pct)
  ELSE RunValue(RunValue(v, amount, r, f, sp, pct, from, (from + to) \div 2),
                amount, r, f, sp, pct, (from + to) \div 2 + 1, to)

\* finalValue of simulateDCA for a clamped config q
FinalValueOf(q) ==
  RunValue(0, q.weeklyAmount.n, PeriodRate(q), PeriodFeeFactor(q), ShockPeriod(q),
           IF q.shockPct = Null THEN 0 ELSE q.shockPct.n, 1, TotalPeriods(q))

RunningPeakLatest(v, k) == v

\* line 325: if (portfolio > peak) peak = portfolio
RunningPeak(v, k) == IF v > k THEN v ELSE k

\* lines 311-344: one iteration of the loop
SimulatePeriod ==
  /\ pc = "loop"
  /\ period <= totalPeriods
  /\ LET amount == p.weeklyAmount.n
         shocked == shockPeriod # Null /\ Num(period * Scale) = shockPeriod
         beforeShock == Fee(Grow(portfolio + amount, rPeriod), feeFactor)
         v == PeriodValue(portfolio, amount, rPeriod, feeFactor, shocked,
                          IF shocked THEN p.shockPct.n ELSE 0)
         target == IF shocked THEN RecoveryTarget(peak, beforeShock)
                   ELSE preShockPeak
         applied == shockApplied \/ shocked
         counter0 == IF shocked THEN 0 ELSE afterShockCounter
         pk == RunningPeak(v, peak)
         dd == IF pk > 0 THEN Drawdown(v, pk) ELSE 0
         counting == Counting(applied, recoveryPeriods, target)
         counter1 == IF counting THEN counter0 + 1 ELSE counter0
         year == period \div periodsPerYear
     IN /\ portfolio' = v
        /\ contributed' = contributed + amount
        /\ preShockPeak' = target
        /\ shockApplied' = applied
        /\ shockFired' = IF shocked THEN Append(shockFired, period) ELSE shockFired
        /\ peak' = pk
        /\ maxDrawdown' = IF pk > 0 /\ dd < maxDrawdown THEN dd ELSE maxDrawdown
        /\ afterShockCounter' = counter1
        /\ recoveryPeriods' = IF counting /\ Recovered(v, target) THEN Num(counter1 * Scale)
                               ELSE recoveryPeriods
        /\ series' = Append(series, v)
        /\ milestones' = IF AtYearBoundary(period, year, periodsPerYear)
                          THEN Put(milestones, year * Scale, v) ELSE milestones
  /\ period' = period + 1
  /\ UNCHANGED <<raw, out, pc, p, periodsPerYear, totalPeriods, rPeriod, feeFactor,
                 shockPeriod, result, conv, envVars>>

gainsFloorZero(v, c) == Max(0, v - c)

\* line 364: gains: portfolio - contributed
gains(v, c) == v - c

\* lines 346-370: after the loop
SimulateFinish ==
  /\ pc = "loop"
  /\ period > totalPeriods
  /\ milestones' = IF p.years.n > 0 THEN Put(milestones, p.years.n, portfolio)
                    ELSE milestones
  /\ result' = [contributed |-> contributed,
                finalValue |-> portfolio,
                gains |-> gains(portfolio, contributed),
                maxDrawdownPct |-> maxDrawdown * 100,
                recoveryWeeks |-> IF recoveryPeriods # Null
                                  THEN (IF IsMonthly(p) THEN Num(recoveryPeriods.n * 4)
                                        ELSE recoveryPeriods)
                                  ELSE Null,
                inflationAdjusted |-> inflationAdjusted(portfolio, inflationFactor(p))]
  /\ pc' = "done"
  /\ UNCHANGED <<raw, out, p, periodsPerYear, totalPeriods, rPeriod, feeFactor, portfolio,
                 contributed, peak, maxDrawdown, series, shockPeriod, preShockPeak,
                 recoveryPeriods, shockApplied, afterShockCounter, period, shockFired,
                 conv, envVars>>

Next == SimulateStart \/ SimulatePeriod \/ SimulateFinish

Spec == Init /\ [][Next]_vars

(***************************************************************************)
(* Specification of simulateDCA over the inflation rates                   *)
(***************************************************************************)
SimInflations == {Missing, Null, Num(0), Num(2 * Scale), Str(Monthly)}

InitInflation ==
  /\ \E y \in SimYears, r \in {Num(0), Num(100 * Scale)}, fr \in SimFrequencies,
        i \in SimInflations :
        raw = [weeklyAmount |-> Num(100 * Scale), years |-> y, annualReturnPct |-> r,
               annualFeePct |-> Missing, shockPct |-> Missing, shockYear |-> Null,
               frequency |-> fr, inflationPct |-> i]
  /\ out = DEFAULTS
  /\ pc = "ready"
  /\ SimIdle
  /\ conv = NoConversion
  /\ EnvIdle

SpecInflation == InitInflation /\ [][Next]_vars

(***************************************************************************)
(* Specification of the weekly rate conversions                            *)
(***************************************************************************)
\* the largest annual percentage converted, either sign
MaxConvPct == 150

\* annual percentages in steps of half a percent, in hundredths
ConvArgs == {k * (Scale \div 2) : k \in (0 - 2 * MaxConvPct)..(2 * MaxConvPct)}

InitRate ==
  /\ raw = [k \in Keys |-> Missing]
  /\ out = DEFAULTS
  /\ pc = "ready"
  /\ SimIdle
  /\ \E a \in ConvArgs : conv = [fn |-> "none", arg |-> a, res |-> 0]
  /\ EnvIdle

WeeklyRateCall ==
  /\ conv.fn = "none"
  /\ conv' = [conv EXCEPT !.fn = "weeklyRateFromAnnual",
                          !.res = weeklyRateFromAnnual(conv.arg)]
  /\ UNCHANGED <<raw, out, pc, simVars, envVars>>

WeeklyFeeFactorCall ==
  /\ conv.fn = "none"
  /\ conv' = [conv EXCEPT !.fn = "weeklyFeeFactorFromAnnual",
                          !.res = weeklyFeeFactorFromAnnual(conv.arg)]
  /\ UNCHANGED <<raw, out, pc, simVars, envVars>>

NextRate == WeeklyRateCall \/ WeeklyFeeFactorCall

SpecRate == InitRate /\ [][NextRate]_vars

(***************************************************************************)
(* Command parsing                                                         *)
(***************************************************************************)
Word(s) == [i \in 1..Len(s) |-> s[i]]

Capitals == <<"A", "B", "C", "D", "E", "F", "H", "K", "N", "O", "S", "T", "V">>

Smalls == <<"a", "b", "c", "d", "e", "f", "h", "k", "n", "o", "s", "t", "v">>

\* String.prototype.toLowerCase, on the letters of the command words and of
\* the ETF names
toLowerCase(s) ==
  [i \in 1..Len(s) |->
     IF \E j \in 1..Len(Capitals) : Capitals[j] = s[i]
     THEN Smalls[CHOOSE j \in 1..Len(Capitals) : Capitals[j] = s[i]]
     ELSE s[i]]

toUpperCase(s) ==
  [i \in 1..Len(s) |->
     IF \E j \in 1..Len(Smalls) : Smalls[j] = s[i]
     THEN Capitals[CHOOSE j \in 1..Len(Smalls) : Smalls[j] = s[i]]
     ELSE s[i]]

\* line 395: text.trim().split(/\s+/): the maximal runs of characters other
\* than the space, in order; one empty token when there is no such run
Split(s) ==
  LET starts == {i \in 1..Len(s) : s[i] # " " /\ (i = 1 \/ s[i - 1] = " ")}
      ends == {j \in 1..Len(s) : s[j] # " " /\ (j = Len(s) \/ s[j + 1] = " ")}
      EndOf(i) == CHOOSE j \in ends : j >= i /\ \A e \in ends : e >= i => j <= e
      Nth(k) == CHOOSE i \in starts : Cardinality({t \in starts : t <= i}) = k
  IN IF starts = {} THEN << <<>> >>
     ELSE [k \in 1..Cardinality(starts) |-> SubSeq(s, Nth(k), EndOf(Nth(k)))]

ShockAcceptedAnyWord(sPct, at, sYear) == sPct # Null /\ sYear # Null

\* line 421: sPct !== null && at === "at" && sYear !== null
ShockAccepted(sPct, at, sYear) == sPct # Null /\ at = <<"a", "t">> /\ sYear # Null

\* lines 409-429: the loop over the tokens from index i on (JavaScript counts
\* the tokens from 0, P[i + 1] is parts[i]); acc holds annualFeePct, shockPct
\* and shockYear
RECURSIVE ScanParts(_, _, _)
ScanParts(P, i, acc) ==
  IF i >= Len(P) THEN acc
  ELSE LET w == toLowerCase(P[i + 1]) IN
       IF w = <<"f", "e", "e">> /\ i + 1 < Len(P)
       THEN ScanParts(P, i + 2, [acc EXCEPT !.annualFeePct = toNum(Str(P[i + 2]), Num(0))])
       ELSE IF w = <<"s", "h", "o", "c", "k">> /\ i + 3 < Len(P)
                 /\ ShockAccepted(toNum(Str(P[i + 2]), Null), toLowerCase(P[i + 3]),
                                  toNum(Str(P[i + 4]), Null))
       THEN ScanParts(P, i + 4, [acc EXCEPT !.shockPct = toNum(Str(P[i + 2]), Null),
                                            !.shockYear = toNum(Str(P[i + 4]), Null)])
       ELSE ScanParts(P, i + 1, acc)

\* lines 394-432
parseDcaCommand(s) ==
  LET P == Split(s)
      tail == ScanParts(P, 4, [annualFeePct |-> DEFAULTS.annualFeePct,
                               shockPct |-> Null, shockYear |-> Null])
  IN clampParams(
       [weeklyAmount |-> IF Len(P) >= 2 THEN toNum(Str(P[2]), DEFAULTS.weeklyAmount)
                         ELSE DEFAULTS.weeklyAmount,
        years |-> IF Len(P) >= 3 THEN toNum(Str(P[3]), DEFAULTS.years) ELSE DEFAULTS.years,
        annualReturnPct |-> IF Len(P) >= 4 THEN toNum(Str(P[4]), DEFAULTS.annualReturnPct)
                            ELSE DEFAULTS.annualReturnPct,
        annualFeePct |-> tail.annualFeePct,
        shockPct |-> tail.shockPct,
        shockYear |-> tail.shockYear,
        frequency |-> Missing,
        inflationPct |-> Missing])

\* the tokens after the three positional ones are at most MaxTail
MaxTail == 6

TailTokens ==
  {Word(<<"f", "e", "e">>), Word(<<"s", "h", "o", "c", "k">>), Word(<<"a", "t">>),
   Word(<<"2">>)}

PositionalTokens == {Word(<<"5", "0">>), Word(<<"x">>)}

\* the sequences of at most n elements of S
SeqsUpTo(S, n) == UNION {[1..k -> S] : k \in 0..n}

\* the tokens joined, each followed by the separator
RECURSIVE Join(_, _)
Join(ts, sep) == IF ts = <<>> THEN <<>> ELSE Head(ts) \o sep \o Join(Tail(ts), sep)

\* the texts of a /dca command: the command, up to three positional tokens,
\* and, after three numbers, a tail of clause words and numbers, in small
\* letters separated by one space or in capitals separated by two
InitParse ==
  /\ raw = [k \in Keys |-> Missing]
  /\ out = DEFAULTS
  /\ pc = "ready"
  /\ SimIdle
  /\ conv = NoConversion
  /\ now = StartTime
  /\ ticks = 0
  /\ lastCall = NoEntries
  /\ userState = NoEntries
  /\ call = NoCall
  /\ accepted = [u \in Users |-> <<>>]
  /\ inv = NoInvocation
  /\ first = NoFirst
  /\ AuxIdle
  /\ \E capitals \in BOOLEAN :
       LET sep == IF capitals THEN <<" ", " ">> ELSE <<" ">> IN
       \/ \E pos \in SeqsUpTo(PositionalTokens, 3) :
            text = Join(<<Word(<<"/", "d", "c", "a">>)>> \o pos, sep)
       \/ \E tail \in SeqsUpTo(TailTokens, MaxTail) :
            text = Join(<<Word(<<"/", "d", "c", "a">>), Word(<<"5", "0">>), Word(<<"2">>),
                          Word(<<"7">>)>>
                        \o [i \in 1..Len(tail) |->
                              IF capitals THEN toUpperCase(tail[i]) ELSE tail[i]],
                        sep)

\* the /dca handler parses the text of the message (line 756)
ParseCall ==
  /\ pc = "ready"
  /\ out' = parseDcaCommand(text)
  /\ pc' = "parsed"
  /\ UNCHANGED <<raw, simVars, conv, envVars>>

NextParse == ParseCall

SpecParse == InitParse /\ [][NextParse]_vars

(***************************************************************************)
(* Specification of the rate limiter                                       *)
(***************************************************************************)
\* the users ran a simulation before, and hold stored parameters
InitLimit ==
  /\ raw = [k \in Keys |-> Missing]
  /\ out = DEFAULTS
  /\ pc = "ready"
  /\ SimIdle
  /\ conv = NoConversion
  /\ now = StartTime
  /\ ticks = 0
  /\ lastCall = NoEntries
  /\ userState = [u \in Users |-> DEFAULTS]
  /\ call = NoCall
  /\ accepted = [u \in Users |-> <<>>]
  /\ inv = NoInvocation
  /\ first = NoFirst
  /\ text = <<>>
  /\ AuxIdle

NextLimit == Tick \/ IsRateLimitedCall \/ CleanupStaleSessions

SpecLimit == InitLimit /\ [][NextLimit]_vars

(***************************************************************************)
(* Specification of two calls of simulateDCA with the rate limiter and the *)
(* cleanup timer running before and in between                             *)
(***************************************************************************)
\* user 1 switched to monthly more than maxAge ago, and the timer has not run since
InitTwice ==
  /\ \E y \in {Num(10), Num(50)}, r \in {Num(0), Num(100 * Scale)},
        sp \in {Missing, Num(0 - 30 * Scale)}, fr \in SimFrequencies :
        raw = [weeklyAmount |-> Num(100 * Scale), years |-> y, annualReturnPct |-> r,
               annualFeePct |-> Missing, shockPct |-> sp, shockYear |-> Num(0),
               frequency |-> fr, inflationPct |-> Missing]
  /\ out = DEFAULTS
  /\ pc = "ready"
  /\ SimIdle
  /\ conv = NoConversion
  /\ now = StartTime
  /\ ticks = 0
  /\ lastCall = [u \in {1} |-> StartTime - RATE_LIMIT.maxAge - 1]
  /\ userState = [u \in {1} |-> [DEFAULTS EXCEPT !.frequency = Str(Monthly)]]
  /\ call = NoCall
  /\ accepted = [u \in Users |-> <<>>]
  /\ inv = NoInvocation
  /\ first = NoFirst
  /\ text = <<>>
  /\ AuxIdle

\* lines 602 and 1292: simulateDCA is called again with the config of a call
\* that has returned
SimulateAgain ==
  /\ pc = "done"
  /\ ~first.taken
  /\ first' = [taken |-> TRUE, result |-> result, series |-> series,
               milestones |-> milestones]
  /\ pc' = "ready"
  /\ shockFired' = <<>>
  /\ UNCHANGED <<raw, out, p, periodsPerYear, totalPeriods, rPeriod, feeFactor, portfolio,
                 contributed, peak, maxDrawdown, series, milestones, shockPeriod,
                 preShockPeak, recoveryPeriods, shockApplied, afterShockCounter, period,
                 result, conv, botVars, text, auxVars>>

NextTwice ==
  \/ SimulateStart
  \/ SimulatePeriod
  \/ SimulateFinish
  \/ SimulateAgain
  \/ IsRateLimitedCall
  \/ CleanupStaleSessions

SpecTwice == InitTwice /\ [][NextTwice]_vars

(***************************************************************************)
(* Specification of simulateDCA on the ten-year shock scenario             *)
(***************************************************************************)
\* index.test.js, "simulateDCA handles shock events": the run with the shock
ShockScenario ==
  [weeklyAmount |-> Num(100 * Scale), years |-> Num(10 * Scale),
   annualReturnPct |-> Num(7 * Scale), annualFeePct |-> Num(0),
   shockPct |-> Num(0 - 30 * Scale), shockYear |-> Num(3 * Scale)]

\* the run of the same test without the shock
NoShockScenario == [ShockScenario EXCEPT !.shockPct = Null, !.shockYear = Null]

\* the keys a config of the scenario does not have
WithoutFrequency(c) ==
  [k \in DOMAIN c \cup {"frequency", "inflationPct"} |->
     IF k \in DOMAIN c THEN c[k] ELSE Missing]

InitScenario ==
  /\ raw \in {WithoutFrequency(ShockScenario), WithoutFrequency(NoShockScenario)}
  /\ out = DEFAULTS
  /\ pc = "ready"
  /\ SimIdle
  /\ conv = NoConversion
  /\ EnvIdle

SpecScenario == InitScenario /\ [][Next]_vars

(***************************************************************************)
(* Specification of the handlers of the bot                                *)
(***************************************************************************)
\* lines 18-22
PRESETS ==
  [base |-> [weeklyAmount |-> Num(100 * Scale), years |-> Num(10 * Scale),
             annualReturnPct |-> Num(7 * Scale), annualFeePct |-> Num(0),
             shockPct |-> Num(0 - 30 * Scale), shockYear |-> Num(3 * Scale)],
   bull |-> [weeklyAmount |-> Num(100 * Scale), years |-> Num(10 * Scale),
             annualReturnPct |-> Num(12 * Scale), annualFeePct |-> Num(0),
             shockPct |-> Null, shockYear |-> Null],
   pain |-> [weeklyAmount |-> Num(100 * Scale), years |-> Num(10 * Scale),
             annualReturnPct |-> Num(7 * Scale), annualFeePct |-> Num(0),
             shockPct |-> Num(0 - 50 * Scale), shockYear |-> Num(2 * Scale)]]

\* lines 25-65: the presets of VOO and BND
ETF_PRESETS ==
  [voo |-> [annualReturnPct |-> Num(10 * Scale + Scale \div 2), annualFeePct |-> Num(3),
            typicalShock |-> Num(0 - 35 * Scale)],
   bnd |-> [annualReturnPct |-> Num(4 * Scale), annualFeePct |-> Num(3),
            typicalShock |-> Num(0 - 10 * Scale)]]

\* an object literal as a parameter bundle: the keys it does not have are missing
Bundle(c) == [k \in Keys |-> IF k \in DOMAIN c THEN c[k] ELSE Missing]

\* ctx.from?.id: 0 stands for an update without a sender
Senders == {0, 1}

\* at most MaxUpdates updates are handled
MaxUpdates == 2

\* the calls of the Telegram API, by the place of the call
Apis ==
  {"editMessageMedia", "replyWithPhoto", "replyCaption", "replyChart", "replyError",
   "editMessageText", "replyMessage", "answerCbQuery"}

\* the calls that Telegram rejects while one update is handled
ApiFailures ==
  {{},
   {"editMessageMedia"},
   {"editMessageMedia", "replyWithPhoto"},
   {"editMessageMedia", "replyWithPhoto", "replyChart"},
   {"editMessageMedia", "replyWithPhoto", "replyCaption"},
   {"answerCbQuery", "editMessageText"},
   Apis}

\* one call of the API and whether it went through
Attempt(api, fails) == [api |-> api, ok |-> api \notin fails]

\* what a handler has done so far, on the Maps lc and us
Entered(lc, us) ==
  [lastCall |-> lc, userState |-> us, checked |-> FALSE, limited |-> FALSE, sims |-> 0,
   wrote |-> FALSE, calls |-> <<>>, card |-> NoCard, thrown |-> FALSE]

\* if (isRateLimited(userId, ms)) return;
Limited(o, userId, ms, t) ==
  LET r == isRateLimited(o.lastCall, userId, ms, t) IN
  [o EXCEPT !.lastCall = r.lastCall, !.checked = TRUE, !.limited = r.limited]

\* try { await ctx.answerCbQuery(); } catch {}
Answer(o, fails) == [o EXCEPT !.calls = @ \o <<Attempt("answerCbQuery", fails)>>]

\* userState.get(userId) || clampParams({})
Current(us, userId) ==
  IF userId \in DOMAIN us THEN us[userId] ELSE clampParams(Bundle([x \in {} |-> Null]))

CardSendsNoPhotoRetry(updateType, fails) ==
  LET photo == <<Attempt("replyWithPhoto", fails)>>
      caption == <<Attempt("replyCaption", fails)>>
      textOnly == IF "replyCaption" \in fails THEN caption
                  ELSE caption \o <<Attempt("replyChart", fails)>>
      fallback == IF "replyWithPhoto" \in fails THEN photo \o textOnly ELSE photo
      edit == <<Attempt("editMessageMedia", fails)>>
      sends == IF updateType = "callback_query"
               THEN (IF "editMessageMedia" \in fails THEN edit \o textOnly ELSE edit)
               ELSE fallback
      thrown == ~sends[Len(sends)].ok
  IN [calls |-> IF updateType = "callback_query" /\ ~thrown
                THEN sends \o <<Attempt("answerCbQuery", fails)>> ELSE sends,
      thrown |-> thrown]

\* lines 607-640: the calls of renderCard in order, and whether it throws
CardSends(updateType, fails) ==
  LET photo == <<Attempt("replyWithPhoto", fails)>>
      caption == <<Attempt("replyCaption", fails)>>
      textOnly == IF "replyCaption" \in fails THEN caption
                  ELSE caption \o <<Attempt("replyChart", fails)>>
      fallback == IF "replyWithPhoto" \in fails THEN photo \o textOnly ELSE photo
      edit == <<Attempt("editMessageMedia", fails)>>
      sends == IF updateType = "callback_query"
               THEN (IF "editMessageMedia" \in fails THEN edit \o fallback ELSE edit)
               ELSE fallback
      thrown == ~sends[Len(sends)].ok
  IN [calls |-> IF updateType = "callback_query" /\ ~thrown
                THEN sends \o <<Attempt("answerCbQuery", fails)>> ELSE sends,
      thrown |-> thrown]

\* lines 598-641: the config is normalised and stored, simulated and sent
renderCard(o, updateType, userId, params, fails) ==
  LET c == CardSends(updateType, fails) IN
  [o EXCEPT !.userState = Put(o.userState, userId, clampParams(params)),
            !.wrote = TRUE,
            !.sims = @ + 1,
            !.calls = @ \o c.calls,
            !.card = c,
            !.thrown = c.thrown]

\* lines 751-764
dca(o, userId, s, fails, t) ==
  IF userId = 0 THEN o
  ELSE LET o1 == Limited(o, userId, RATE_LIMIT.command, t) IN
       IF o1.limited THEN o1
       ELSE LET o2 == renderCard(o1, "message", userId, parseDcaCommand(s), fails) IN
            IF o2.thrown
            THEN [o2 EXCEPT !.calls = @ \o <<Attempt("replyError", fails)>>,
                            !.thrown = "replyError" \in fails]
            ELSE o2

\* lines 766-771
base(o, userId, fails, t) ==
  IF userId = 0 THEN o
  ELSE LET o1 == Limited(o, userId, RATE_LIMIT.command, t) IN
       IF o1.limited THEN o1
       ELSE renderCard(o1, "message", userId, Bundle(PRESETS.base), fails)

\* lines 1086-1090
noop(o, fails) == Answer(o, fails)

\* lines 1162-1166
runDefault(o, userId, fails) ==
  IF userId = 0 THEN o
  ELSE renderCard(o, "callback_query", userId, Bundle(PRESETS.base), fails)

\* lines 1168-1180
preset(o, userId, name, fails) ==
  IF userId = 0 THEN o
  ELSE IF name \in DOMAIN PRESETS
       THEN renderCard(o, "callback_query", userId, Bundle(PRESETS[name]), fails)
       ELSE Answer(o, fails)

\* Math.min(cur.years || 10, 3)
ShockYearOf(cur) ==
  Num(Min(IF Truthy(cur.years) THEN cur.years.n ELSE 10 * Scale, 3 * Scale))

\* lines 1182-1202
etf(o, userId, etfKey, fails, t) ==
  IF userId = 0 THEN o
  ELSE LET o1 == Limited(o, userId, RATE_LIMIT.button, t) IN
       IF o1.limited THEN o1
       ELSE IF etfKey \notin DOMAIN ETF_PRESETS THEN Answer(o1, fails)
       ELSE LET cur == Current(o1.userState, userId) IN
            renderCard(o1, "callback_query", userId,
                       [cur EXCEPT !.annualReturnPct = ETF_PRESETS[etfKey].annualReturnPct,
                                   !.annualFeePct = ETF_PRESETS[etfKey].annualFeePct,
                                   !.shockPct = ETF_PRESETS[etfKey].typicalShock,
                                   !.shockYear = ShockYearOf(cur)],
                       fails)

\* lines 1204-1212
years(o, userId, delta, fails, t) ==
  IF userId = 0 THEN o
  ELSE LET o1 == Limited(o, userId, RATE_LIMIT.button, t) IN
       IF o1.limited THEN o1
       ELSE LET cur == Current(o1.userState, userId) IN
            renderCard(o1, "callback_query", userId,
                       [cur EXCEPT !.years =
                          Num((IF Truthy(cur.years) THEN cur.years.n ELSE 0) + delta * Scale)],
                       fails)

\* lines 1234-1247
shockpct(o, userId, delta, fails, t) ==
  IF userId = 0 THEN o
  ELSE LET o1 == Limited(o, userId, RATE_LIMIT.button, t) IN
       IF o1.limited THEN o1
       ELSE LET cur == Current(o1.userState, userId) IN
            IF cur.shockPct = Null THEN Answer(o1, fails)
            ELSE LET newShock ==
                       Max(0 - 95 * Scale,
                           Min(0, (IF Truthy(cur.shockPct) THEN cur.shockPct.n
                                   ELSE 0 - 30 * Scale) + delta * Scale))
                 IN renderCard(o1, "callback_query", userId,
                               [cur EXCEPT !.shockPct = Num(newShock)], fails)

\* lines 1364-1374
sim(o, userId, weekly, yrs, ret, fails) ==
  IF userId = 0 THEN o
  ELSE renderCard(Answer(o, fails), "callback_query", userId,
                  Bundle([weeklyAmount |-> Num(weekly * Scale), years |-> Num(yrs * Scale),
                          annualReturnPct |-> Num(ret * Scale), shockPct |-> Null,
                          shockYear |-> Null]),
                  fails)

\* lines 1526-1535: the parts of the mix that name an ETF
Allocations(parts) == SelectSeq(parts, LAMBDA part : part.name \in DOMAIN ETF_PRESETS)

\* lines 1514-1600
mixAmt(o, userId, delta, parts, fails) ==
  IF userId = 0 THEN o
  ELSE LET o1 == Answer(o, fails)
           cur == Current(o1.userState, userId)
           newAmount == Max(0, (IF Truthy(cur.weeklyAmount) THEN cur.weeklyAmount.n
                                ELSE 100 * Scale) + delta * Scale)
           o2 == [o1 EXCEPT !.userState = Put(o1.userState, userId,
                                              [cur EXCEPT !.weeklyAmount = Num(newAmount)]),
                            !.wrote = TRUE]
       IN IF Allocations(parts) = <<>> THEN o2
          ELSE LET o3 == [o2 EXCEPT !.sims = @ + 1,
                                    !.calls = @ \o <<Attempt("editMessageText", fails)>>]
               IN IF "editMessageText" \in fails
                  THEN [o3 EXCEPT !.calls = @ \o <<Attempt("replyMessage", fails)>>,
                                  !.thrown = "replyMessage" \in fails]
                  ELSE o3

\* lines 1603-1690
mixYrs(o, userId, delta, parts, fails) ==
  IF userId = 0 THEN o
  ELSE LET o1 == Answer(o, fails)
           cur == Current(o1.userState, userId)
           newYears == Max(Scale, Min(50 * Scale,
                                      (IF Truthy(cur.years) THEN cur.years.n ELSE 10 * Scale)
                                      + delta * Scale))
           o2 == [o1 EXCEPT !.userState = Put(o1.userState, userId,
                                              [cur EXCEPT !.years = Num(newYears)]),
                            !.wrote = TRUE]
       IN IF Allocations(parts) = <<>> THEN o2
          ELSE LET o3 == [o2 EXCEPT !.sims = @ + 1,
                                    !.calls = @ \o <<Attempt("editMessageText", fails)>>]
               IN IF "editMessageText" \in fails
                  THEN [o3 EXCEPT !.calls = @ \o <<Attempt("replyMessage", fails)>>,
                                  !.thrown = "replyMessage" \in fails]
                  ELSE o3

\* the text of a /dca message
CommandTexts ==
  {Join(<<Word(<<"/", "d", "c", "a">>)>>, <<" ">>),
   Join(<<Word(<<"/", "d", "c", "a">>), Word(<<"5", "0">>), Word(<<"2">>), Word(<<"7">>)>>,
        <<" ">>),
   Join(<<Word(<<"/", "d", "c", "a">>), Word(<<"5", "0">>), Word(<<"2">>), Word(<<"7">>),
          Word(<<"s", "h", "o", "c", "k">>), Word(<<"0">>), Word(<<"a", "t">>),
          Word(<<"2">>)>>, <<" ">>),
   Join(<<Word(<<"/", "d", "c", "a">>), Word(<<"5", "0">>), Word(<<"2">>), Word(<<"7">>),
          Word(<<"s", "h", "o", "c", "k">>), Word(<<"-", "9", "0">>), Word(<<"a", "t">>),
          Word(<<"2">>)>>, <<" ">>)}

\* the mixes of the buttons, and one that names no ETF
Mixes ==
  {<<[pct |-> 60, name |-> "voo"], [pct |-> 40, name |-> "bnd"]>>,
   <<[pct |-> 100, name |-> "x"]>>}

\* the handler is done: the Maps and the record of the invocation
Handled(handler, updateType, userId, o) ==
  /\ lastCall' = o.lastCall
  /\ userState' = o.userState
  /\ inv' = [handler |-> handler, updateType |-> updateType, user |-> userId,
             checked |-> o.checked, limited |-> o.limited, sims |-> o.sims,
             wrote |-> o.wrote, calls |-> o.calls, card |-> o.card, thrown |-> o.thrown,
             update |-> inv.update + 1]
  /\ seen' = IF userId = 0 THEN seen ELSE Put(seen, userId, now)
  /\ UNCHANGED <<raw, out, pc, simVars, conv, now, ticks, call, accepted, first, text, chart, tasks, mix>>

CommandDca ==
  \E u \in Senders, s \in CommandTexts, fails \in ApiFailures :
    /\ inv.update < MaxUpdates
    /\ Handled("dca", "message", u, dca(Entered(lastCall, userState), u, s, fails, now))

CommandBase ==
  \E u \in Senders, fails \in ApiFailures :
    /\ inv.update < MaxUpdates
    /\ Handled("base", "message", u, base(Entered(lastCall, userState), u, fails, now))

ActionNoop ==
  \E u \in Senders, fails \in ApiFailures :
    /\ inv.update < MaxUpdates
    /\ Handled("noop", "callback_query", u, noop(Entered(lastCall, userState), fails))

ActionRunDefault ==
  \E u \in Senders, fails \in ApiFailures :
    /\ inv.update < MaxUpdates
    /\ Handled("run:default", "callback_query", u,
               runDefault(Entered(lastCall, userState), u, fails))

ActionPreset ==
  \E u \in Senders, name \in {"bull", "none"}, fails \in ApiFailures :
    /\ inv.update < MaxUpdates
    /\ Handled("preset", "callback_query", u,
               preset(Entered(lastCall, userState), u, name, fails))

ActionEtf ==
  \E u \in Senders, etfKey \in {"voo", "none"}, fails \in ApiFailures :
    /\ inv.update < MaxUpdates
    /\ Handled("etf", "callback_query", u,
               etf(Entered(lastCall, userState), u, etfKey, fails, now))

ActionYears ==
  \E u \in Senders, delta \in {0 - 1, 1}, fails \in ApiFailures :
    /\ inv.update < MaxUpdates
    /\ Handled("years", "callback_query", u,
               years(Entered(lastCall, userState), u, delta, fails, now))

\* the button "Worse" carries shockpct:-10 (line 513)
ActionShockPct ==
  \E u \in Senders, fails \in ApiFailures :
    /\ inv.update < MaxUpdates
    /\ Handled("shockpct", "callback_query", u,
               shockpct(Entered(lastCall, userState), u, 0 - 10, fails, now))

ActionSim ==
  \E u \in Senders, fails \in ApiFailures :
    /\ inv.update < MaxUpdates
    /\ Handled("sim", "callback_query", u,
               sim(Entered(lastCall, userState), u, 50, 5, 7, fails))

ActionMixAmt ==
  \E u \in Senders, parts \in Mixes, fails \in ApiFailures :
    /\ inv.update < MaxUpdates
    /\ Handled("mix:amt", "callback_query", u,
               mixAmt(Entered(lastCall, userState), u, 50, parts, fails))

ActionMixYrs ==
  \E u \in Senders, delta \in {0 - 1, 1}, parts \in Mixes, fails \in ApiFailures :
    /\ inv.update < MaxUpdates
    /\ Handled("mix:yrs", "callback_query", u,
               mixYrs(Entered(lastCall, userState), u, delta, parts, fails))

\* the time of one command interval passes
Pause ==
  /\ ticks < MaxTicks
  /\ now' = now + RATE_LIMIT.command
  /\ ticks' = ticks + 1
  /\ UNCHANGED <<raw, out, pc, simVars, conv, lastCall, userState, call, accepted, inv,
                 first, text, auxVars>>

InitBot ==
  /\ raw = [k \in Keys |-> Missing]
  /\ out = DEFAULTS
  /\ pc = "ready"
  /\ SimIdle
  /\ conv = NoConversion
  /\ EnvIdle

NextBot ==
  \/ CommandDca
  \/ CommandBase
  \/ ActionNoop
  \/ ActionRunDefault
  \/ ActionPreset
  \/ ActionEtf
  \/ ActionYears
  \/ ActionShockPct
  \/ ActionSim
  \/ ActionMixAmt
  \/ ActionMixYrs
  \/ Pause

SpecBot == InitBot /\ [][NextBot]_vars

(***************************************************************************)
(* Specification of the sessions under the cleanup timer                   *)
(***************************************************************************)
NextSessions ==
  \/ CommandBase
  \/ ActionSim
  \/ Tick
  \/ CleanupStaleSessions

\* line 155: setInterval runs cleanupStaleSessions again and again
SpecSessions == InitBot /\ [][NextSessions]_vars /\ WF_vars(CleanupStaleSessions)

(***************************************************************************)
(* Specification of handlers that interleave at their awaits               *)
(***************************************************************************)
\* at most MaxTasks handlers are started
MaxTasks == 2

\* whether every call goes through or every call is rejected
AllOrNothing == {{}, Apis}

ReadAtEntry(task, us) == task.entry

\* line 1522: mix:amt reads userState after the await of line 1517, from the
\* Map as it is when the handler resumes
ReadAtResume(task, us) == us

\* a handler that has run up to an await: what it was called with, the Map as
\* it was on entry, and what it has done so far
Started(handler, delta, fails, stage, us, o) ==
  [handler |-> handler, delta |-> delta, fails |-> fails, stage |-> stage, entry |-> us,
   checked |-> o.checked, limited |-> o.limited, sims |-> o.sims, wrote |-> o.wrote,
   calls |-> o.calls, card |-> o.card, thrown |-> o.thrown]

\* lines 1204-1212 and 598-609: years runs without an await from its entry to
\* the first send of renderCard; a rate-limited press is over at once
StartYears ==
  \E delta \in {0 - 1, 1}, fails \in AllOrNothing :
    /\ Len(tasks) < MaxTasks
    /\ LET o == years(Entered(lastCall, userState), 1, delta, fails, now) IN
       /\ lastCall' = o.lastCall
       /\ userState' = o.userState
       /\ tasks' = Append(tasks, Started("years", delta, fails,
                                         IF o.limited THEN "limited" ELSE "sending",
                                         userState, o))
    /\ seen' = Put(seen, 1, now)
    /\ UNCHANGED <<raw, out, pc, simVars, conv, now, ticks, call, accepted, inv, first,
                   text, chart, mix>>

\* lines 1514-1517: mix:amt runs up to await ctx.answerCbQuery()
StartMixAmt ==
  \E fails \in AllOrNothing :
    /\ Len(tasks) < MaxTasks
    /\ tasks' = Append(tasks, Started("mix:amt", 50, fails, "answering", userState,
                                      Answer(Entered(lastCall, userState), fails)))
    /\ seen' = Put(seen, 1, now)
    /\ UNCHANGED <<raw, out, pc, simVars, conv, now, ticks, lastCall, userState, call,
                   accepted, inv, first, text, chart, mix>>

\* lines 1519-1597: mix:amt resumes, reads and writes userState and runs up
\* to await ctx.editMessageText(...)
ResumeMixAmt ==
  \E i \in 1..Len(tasks) :
    /\ tasks[i].stage = "answering"
    /\ LET o == mixAmt(Entered(lastCall, ReadAtResume(tasks[i], userState)), 1,
                       tasks[i].delta, CHOOSE parts \in Mixes : Allocations(parts) # <<>>,
                       tasks[i].fails)
       IN /\ userState' = Put(userState, 1, o.userState[1])
          /\ tasks' = [tasks EXCEPT ![i] = Started("mix:amt", tasks[i].delta, tasks[i].fails,
                                                   "sending", tasks[i].entry, o)]
    /\ UNCHANGED <<raw, out, pc, simVars, conv, now, ticks, lastCall, call, accepted, inv,
                   first, text, chart, seen, mix>>

\* the sends of a handler are over and the handler returns or throws
Finish ==
  \E i \in 1..Len(tasks) :
    /\ tasks[i].stage = "sending"
    /\ tasks' = [tasks EXCEPT ![i].stage = "done"]
    /\ inv' = [handler |-> tasks[i].handler, updateType |-> "callback_query", user |-> 1,
               checked |-> tasks[i].checked, limited |-> tasks[i].limited,
               sims |-> tasks[i].sims, wrote |-> tasks[i].wrote, calls |-> tasks[i].calls,
               card |-> tasks[i].card, thrown |-> tasks[i].thrown,
               update |-> inv.update + 1]
    /\ UNCHANGED <<raw, out, pc, simVars, conv, now, ticks, lastCall, userState, call,
                   accepted, first, text, chart, seen, mix>>

NextAsync ==
  \/ StartYears
  \/ StartMixAmt
  \/ ResumeMixAmt
  \/ Finish
  \/ Pause

SpecAsync == InitBot /\ [][NextAsync]_vars

(***************************************************************************)
(* Specification of quickChartUrl                                          *)
(***************************************************************************)
\* line 445
maxPoints == 100

\* the longest series of simulateDCA: 50 years of 52 periods
MaxSeriesLength == (LIMITS.years.max.n \div Scale) * 52

\* Math.round of money in hundredths, as a whole number
MathRound(x) == (x + Scale \div 2) \div Scale

\* lines 446-452: the values pushed by the loop over i = 0, step, 2 * step, ...
\* below series.length
Sampled(s) ==
  LET step == Max(1, Len(s) \div maxPoints)
      count == (Len(s) + step - 1) \div step
  IN [k \in 1..count |-> MathRound(s[(k - 1) * step + 1])]

\* the series of a run that contributes 100.50 per period without growth
InitChart ==
  /\ raw = [k \in Keys |-> Missing]
  /\ out = DEFAULTS
  /\ pc = "ready"
  /\ SimIdle
  /\ conv = NoConversion
  /\ now = StartTime
  /\ ticks = 0
  /\ lastCall = NoEntries
  /\ userState = NoEntries
  /\ call = NoCall
  /\ accepted = [u \in Users |-> <<>>]
  /\ inv = NoInvocation
  /\ first = NoFirst
  /\ text = <<>>
  /\ seen = NoEntries
  /\ tasks = <<>>
  /\ mix = NoMix
  /\ \E n \in 0..MaxSeriesLength :
       chart = [NoChart EXCEPT !.series = [i \in 1..n |-> i * (100 * Scale + Scale \div 2)]]

\* lines 444-452
QuickChartCall ==
  /\ ~chart.called
  /\ chart' = [chart EXCEPT !.sampled = Sampled(chart.series), !.called = TRUE]
  /\ UNCHANGED <<raw, out, pc, simVars, conv, botVars, first, text, seen, tasks, mix>>

NextChart == QuickChartCall

SpecChart == InitChart /\ [][NextChart]_vars

(***************************************************************************)
(* Specification of the /mix command                                       *)
(***************************************************************************)

\* at most MaxArgs words follow /mix
MaxArgs == 6

\* the words at the places of the percentages and of the ETF names
PctTokens == {Word(<<"1">>), Word(<<"7">>), Word(<<"3", "3">>), Word(<<"0">>), Word(<<"x">>)}

EtfTokens == {Word(<<"v", "o", "o">>), Word(<<"B", "N", "D">>), Word(<<"x">>)}

\* the keys of ETF_PRESETS as characters
EtfKeys == [voo |-> Word(<<"v", "o", "o">>), bnd |-> Word(<<"b", "n", "d">>)]

\* line 902: (ctx.message?.text || "").trim().split(/\s+/).slice(1)
MixArgs(s) == Tail(Split(s))

\* lines 905-916: the loop over the pairs of words from index i on (JavaScript
\* counts from 0, so args[i] is a[i + 1] here); a pair is kept when the first
\* word is a number above 0 and the second, in small letters, is a key of
\* ETF_PRESETS
RECURSIVE ParsedAllocations(_, _)
ParsedAllocations(a, i) ==
  IF i >= Len(a) THEN <<>>
  ELSE LET pct == toNum(Str(a[i + 1]), Num(0))
           etfName == IF i + 2 <= Len(a) THEN toLowerCase(a[i + 2]) ELSE <<>>
           keys == {k \in DOMAIN ETF_PRESETS : EtfKeys[k] = etfName}
       IN (IF pct.n > 0 /\ keys # {}
           THEN <<[pct |-> pct.n, name |-> CHOOSE k \in keys : TRUE]>>
           ELSE <<>>)
          \o ParsedAllocations(a, i + 2)

\* totalPct: the sum of the percentages
RECURSIVE TotalPct(_)
TotalPct(as) == IF as = <<>> THEN 0 ELSE Head(as).pct + TotalPct(Tail(as))

\* lines 918-923: 60 voo and 40 bnd when no pair was kept
WithDefault(as) ==
  IF as = <<>>
  THEN <<[pct |-> 60 * Scale, name |-> "voo"], [pct |-> 40 * Scale, name |-> "bnd"]>>
  ELSE as

\* Math.round(num / den) for den > 0: the nearest integer, a half upwards
RoundRatio(num, den) == (2 * num + den) \div (2 * den)

\* lines 925-929: every percentage times 100 / totalPct, rounded, unless
\* the total is 100
Normalized(as) ==
  LET totalPct == TotalPct(as) IN
  IF totalPct = 100 * Scale THEN as
  ELSE [i \in 1..Len(as) |->
          [as[i] EXCEPT !.pct = RoundRatio(100 * as[i].pct, totalPct) * Scale]]

\* lines 936-941: the sum over the allocations of a field of the ETF times
\* the weight pct / 100, in 1/(100 * Scale * Scale)
RECURSIVE Weighted(_, _)
Weighted(as, field) ==
  IF as = <<>> THEN 0
  ELSE ETF_PRESETS[Head(as).name][field].n * Head(as).pct + Weighted(Tail(as), field)

\* Math.round of a sum of double products whose exact value is num / den:
\* the nearest integer, and at an exact half either neighbour, since the sum
\* in doubles may fall on either side of the half
RoundedSum(num, den) ==
  IF (2 * num) % (2 * den) = den
  THEN {(2 * num - den) \div (2 * den), (2 * num + den) \div (2 * den)}
  ELSE {RoundRatio(num, den)}

\* lines 943-945: the blended return to a tenth, the blended fee to a
\* hundredth and the blended shock to a unit
Blended(as) ==
  {[annualReturnPct |-> Num(r * (Scale \div 10)), annualFeePct |-> Num(f),
    shockPct |-> Num(k * Scale)] :
     r \in RoundedSum(Weighted(as, "annualReturnPct"), 10 * Scale * Scale),
     f \in RoundedSum(Weighted(as, "annualFeePct"), Scale * Scale),
     k \in RoundedSum(Weighted(as, "typicalShock"), 100 * Scale * Scale)}

\* lines 897-1006: the /mix command with the blended values b; the field
\* _mixName of the stored object is a text for display and is left out
mixCommand(o, userId, b, fails, t) ==
  IF userId = 0 THEN o
  ELSE LET o1 == Limited(o, userId, RATE_LIMIT.command, t) IN
       IF o1.limited THEN o1
       ELSE LET cur == Current(o1.userState, userId)
                shockYear == Min(IF Truthy(cur.years) THEN cur.years.n ELSE 10 * Scale,
                                 3 * Scale)
            IN [o1 EXCEPT !.sims = @ + 1,
                          !.userState =
                             Put(o1.userState, userId,
                                 [cur EXCEPT !.annualReturnPct = b.annualReturnPct,
                                             !.annualFeePct = b.annualFeePct,
                                             !.shockPct = b.shockPct,
                                             !.shockYear = Num(shockYear)]),
                          !.wrote = TRUE,
                          !.calls = @ \o <<Attempt("replyMessage", fails)>>,
                          !.thrown = "replyMessage" \in fails]

\* the texts of a /mix message: up to MaxArgs words, percentages and names in
\* turn, and the user has sent a command just before or not
InitMix ==
  /\ raw = [k \in Keys |-> Missing]
  /\ out = DEFAULTS
  /\ pc = "ready"
  /\ SimIdle
  /\ conv = NoConversion
  /\ now = StartTime
  /\ ticks = 0
  /\ lastCall \in {NoEntries, Put(NoEntries, 1, StartTime)}
  /\ userState = NoEntries
  /\ call = NoCall
  /\ accepted = [u \in Users |-> <<>>]
  /\ inv = NoInvocation
  /\ first = NoFirst
  /\ chart = NoChart
  /\ seen = NoEntries
  /\ tasks = <<>>
  /\ mix = NoMix
  /\ \E n \in 0..MaxArgs :
       \E pcts \in [1..(n + 1) \div 2 -> PctTokens], names \in [1..n \div 2 -> EtfTokens] :
         text = Join(<<Word(<<"/", "m", "i", "x">>)>>
                     \o [i \in 1..n |-> IF i % 2 = 1 THEN pcts[(i + 1) \div 2]
                                        ELSE names[i \div 2]],
                     <<" ">>)

\* the /mix handler is done: the Maps, the record of the invocation and the
\* allocations it has made
MixHandled(userId, o, allocations) ==
  /\ lastCall' = o.lastCall
  /\ userState' = o.userState
  /\ inv' = [handler |-> "mix", updateType |-> "message", user |-> userId,
             checked |-> o.checked, limited |-> o.limited, sims |-> o.sims,
             wrote |-> o.wrote, calls |-> o.calls, card |-> o.card, thrown |-> o.thrown,
             update |-> inv.update + 1]
  /\ seen' = IF userId = 0 THEN seen ELSE Put(seen, userId, now)
  /\ mix' = IF o.wrote
            THEN [args |-> MixArgs(text), allocations |-> allocations, called |-> TRUE]
            ELSE [NoMix EXCEPT !.called = TRUE]
  /\ UNCHANGED <<raw, out, pc, simVars, conv, now, ticks, call, accepted, first, text,
                 chart, tasks>>

\* lines 897-1006
CommandMix ==
  \E u \in Senders, fails \in AllOrNothing :
    /\ ~mix.called
    /\ \E b \in Blended(Normalized(WithDefault(ParsedAllocations(MixArgs(text), 0)))) :
         MixHandled(u, mixCommand(Entered(lastCall, userState), u, b, fails, now),
                    Normalized(WithDefault(ParsedAllocations(MixArgs(text), 0))))

NextMix == CommandMix

SpecMix == InitMix /\ [][NextMix]_vars

(***************************************************************************)
(* Specification of the share button and the command it shows              *)
(***************************************************************************)

\* the decimal digits of a natural number
RECURSIVE DigitsOf(_)
DigitsOf(n) ==
  IF n < 10 THEN <<DigitChars[n + 1]>> ELSE DigitsOf(n \div 10) \o <<DigitChars[(n % 10) + 1]>>

\* Number::toString of a number in 1/Scale: the sign, the digits of the
\* integer part and, unless they are zero, the decimals without trailing zeros
NumberToString(n) ==
  LET a == IF n < 0 THEN 0 - n ELSE n
      fraction == a % Scale
      decimals == IF fraction = 0 THEN <<>>
                  ELSE IF fraction % 10 = 0 THEN <<".", DigitChars[(fraction \div 10) + 1]>>
                  ELSE <<".", DigitChars[(fraction \div 10) + 1], DigitChars[(fraction % 10) + 1]>>
  IN (IF n < 0 THEN <<"-">> ELSE <<>>) \o DigitsOf(a \div Scale) \o decimals

\* `${x}` of a template literal
TemplateString(x) ==
  CASE x.t = "num" -> NumberToString(x.n)
    [] x.t = "null" -> <<"n", "u", "l", "l">>
    [] x.t = "nan" -> <<"N", "a", "N">>
    [] x.t = "str" -> x.s
    [] OTHER -> <<"u", "n", "d", "e", "f", "i", "n", "e", "d">>

shareCommandNoFee(cur) ==
  LET shockPart == IF cur.shockPct # Null /\ cur.shockYear # Null
                   THEN <<" ", "s", "h", "o", "c", "k", " ">> \o TemplateString(cur.shockPct)
                        \o <<" ", "a", "t", " ">> \o TemplateString(cur.shockYear)
                   ELSE <<>>
  IN <<"/", "d", "c", "a", " ">> \o TemplateString(cur.weeklyAmount) \o <<" ">>
     \o TemplateString(cur.years) \o <<" ">> \o TemplateString(cur.annualReturnPct) \o shockPart

\* lines 1294-1296: cmd
shareCommand(cur) ==
  LET feePart == IF cur.annualFeePct.t = "num" /\ cur.annualFeePct.n > 0
                 THEN <<" ", "f", "e", "e", " ">> \o TemplateString(cur.annualFeePct)
                 ELSE <<>>
      shockPart == IF cur.shockPct # Null /\ cur.shockYear # Null
                   THEN <<" ", "s", "h", "o", "c", "k", " ">> \o TemplateString(cur.shockPct)
                        \o <<" ", "a", "t", " ">> \o TemplateString(cur.shockYear)
                   ELSE <<>>
  IN <<"/", "d", "c", "a", " ">> \o TemplateString(cur.weeklyAmount) \o <<" ">>
     \o TemplateString(cur.years) \o <<" ">> \o TemplateString(cur.annualReturnPct) \o feePart
     \o shockPart

\* lines 1279-1331
share(o, userId, fails) ==
  IF userId = 0 THEN o
  ELSE IF userId \notin DOMAIN o.userState THEN Answer(o, fails)
  ELSE LET o1 == [o EXCEPT !.sims = @ + 1,
                           !.calls = @ \o <<Attempt("replyMessage", fails)>>]
       IN IF "replyMessage" \in fails THEN [o1 EXCEPT !.thrown = TRUE]
          ELSE Answer(o1, fails)

\* the raw bundles behind the stored configs
ShareAmounts == {Num(0), Num(50 * Scale), Num(99 * Scale + Scale \div 2), Num(1000000 * Scale)}

ShareYears == {Num(Scale), Num(10 * Scale), Num(50 * Scale)}

ShareReturns ==
  {Num(0 - 100 * Scale), Num(0 - 5 * Scale), Num(0), Num(7 * Scale),
   Num(10 * Scale + Scale \div 2)}

ShareFees == {Num(0), Num(3), Num(Scale \div 2), Num(5 * Scale)}

ShareShocks ==
  {<<Null, Null>>, <<Num(0), Num(0)>>, <<Num(0 - 95 * Scale), Num(50 * Scale)>>,
   <<Num(0 - 30 * Scale), Num(3 * Scale)>>,
   <<Num(0 - 35 * Scale - Scale \div 2), Num(2 * Scale)>>}

\* the normalized configs that renderCard stores (line 603)
ShareConfigs ==
  {clampParams(Bundle([weeklyAmount |-> w, years |-> y, annualReturnPct |-> r,
                       annualFeePct |-> f, shockPct |-> k[1], shockYear |-> k[2]])) :
     w \in ShareAmounts, y \in ShareYears, r \in ShareReturns, f \in ShareFees,
     k \in ShareShocks}

\* the user has no stored config or a normalized one
InitShare ==
  /\ raw = [k \in Keys |-> Missing]
  /\ out = DEFAULTS
  /\ pc = "ready"
  /\ SimIdle
  /\ conv = NoConversion
  /\ now = StartTime
  /\ ticks = 0
  /\ lastCall = NoEntries
  /\ userState \in {NoEntries} \cup {Put(NoEntries, 1, c) : c \in ShareConfigs}
  /\ call = NoCall
  /\ accepted = [u \in Users |-> <<>>]
  /\ inv = NoInvocation
  /\ first = NoFirst
  /\ text = <<>>
  /\ AuxIdle

\* lines 1279-1331: the share button; the message that arrives shows cmd
ActionShare ==
  \E u \in Senders, fails \in AllOrNothing :
    /\ pc = "ready"
    /\ LET o == share(Entered(lastCall, userState), u, fails)
           shown == u \in DOMAIN userState /\ "replyMessage" \notin fails
       IN /\ lastCall' = o.lastCall
          /\ userState' = o.userState
          /\ inv' = [handler |-> "share", updateType |-> "callback_query", user |-> u,
                     checked |-> o.checked, limited |-> o.limited, sims |-> o.sims,
                     wrote |-> o.wrote, calls |-> o.calls, card |-> o.card,
                     thrown |-> o.thrown, update |-> inv.update + 1]
          /\ seen' = IF u = 0 THEN seen ELSE Put(seen, u, now)
          /\ text' = IF shown THEN shareCommand(userState[u]) ELSE <<>>
          /\ pc' = IF shown THEN "shared" ELSE "done"
    /\ UNCHANGED <<raw, out, simVars, conv, now, ticks, call, accepted, first, chart, tasks,
                   mix>>

\* the command shown is sent back and parsed (line 756)
ParseShared ==
  /\ pc = "shared"
  /\ out' = parseDcaCommand(text)
  /\ pc' = "parsed"
  /\ UNCHANGED <<raw, simVars, conv, envVars>>

NextShare == ActionShare \/ ParseShared

SpecShare == InitShare /\ [][NextShare]_vars

(***************************************************************************)
(* Properties of clampParams (checked under SpecClamp)                     *)
(***************************************************************************)
InRange(x, lo, hi) == x.t = "num" /\ lo <= x.n /\ x.n <= hi

ShockPresent(c) == c.shockPct # Null \/ c.shockYear # Null

\* C1: every raw bundle is normalised into the documented ranges: weeklyAmount
\* in [0, 1000000], years in [0, 50], annualReturnPct in [-100, 200],
\* annualFeePct in [0, 5] and, when a shock is present, shockPct in [-95, 0]
C1_ClampRanges ==
  pc = "clamped" =>
    /\ InRange(out.weeklyAmount, 0, 1000000 * Scale)
    /\ InRange(out.years, 0, 50 * Scale)
    /\ InRange(out.annualReturnPct, 0 - 100 * Scale, 200 * Scale)
    /\ InRange(out.annualFeePct, 0, 5 * Scale)
    /\ (ShockPresent(out) => InRange(out.shockPct, 0 - 95 * Scale, 0))

C1_Witness ==
  /\ pc = "clamped"
  /\ raw.weeklyAmount = Num(2000000 * Scale)
  /\ raw.shockPct = Num(0 - 101 * Scale)
  /\ raw.shockYear = Undefined
  /\ out.weeklyAmount = Num(1000000 * Scale)
  /\ out.shockPct = Num(0 - 95 * Scale)

\* C2: in the returned config shockPct and shockYear are both null or both
\* finite numbers
C2_ShockAllOrNothing ==
  pc = "clamped" =>
    \/ out.shockPct = Null /\ out.shockYear = Null
    \/ out.shockPct.t = "num" /\ out.shockYear.t = "num"

C2_Witness ==
  /\ pc = "clamped"
  /\ raw.shockPct = Num(0 - 5 * Scale)
  /\ raw.shockYear = Missing
  /\ out.shockPct = Null
  /\ out.shockYear = Null

AbsentRaw(x) == x.t \in {"missing", "null", "undef"}

\* C3: a raw bundle in which either shock component is absent (key missing,
\* null or undefined) is normalised to a config without shock
C3_PartialShockDropped ==
  pc = "clamped" /\ (AbsentRaw(raw.shockPct) \/ AbsentRaw(raw.shockYear)) =>
    out.shockPct = Null /\ out.shockYear = Null

\* C4: when a shock is present, 0 <= shockYear <= years for the clamped years
\* of the same config
C4_ShockYearWithinHorizon ==
  pc = "clamped" /\ ShockPresent(out) =>
    /\ out.shockYear.t = "num"
    /\ out.years.t = "num"
    /\ 0 <= out.shockYear.n
    /\ out.shockYear.n <= out.years.n

C4_Witness ==
  /\ pc = "clamped"
  /\ raw.years = Num(60 * Scale)
  /\ raw.shockYear = Num(2000000 * Scale)
  /\ out.years = Num(50 * Scale)
  /\ out.shockYear = Num(50 * Scale)

NumericKeys == {"weeklyAmount", "years", "annualReturnPct", "annualFeePct"}

Letters == {"a", "h", "l", "m", "n", "o", "t", "y"}

\* a raw value that Number() does not turn into a finite number
NonFiniteRaw(x) ==
  \/ x.t \in {"nan", "inf", "ninf", "undef"}
  \/ x.t = "str" /\ \E i \in 1..Len(x.s) : x.s[i] \in Letters

\* C5 as stated: a raw value that is a non-numeric string, NaN, an infinity,
\* undefined or null yields the default of its field
C5_NonFiniteOrNullGetsDefault ==
  pc = "clamped" =>
    \A k \in NumericKeys : NonFiniteRaw(raw[k]) \/ raw[k] = Null => out[k] = DEFAULTS[k]

\* C5 amended: a raw value that is a non-numeric string, NaN, an infinity or
\* undefined yields the default of its field; a raw null counts as the
\* number 0 and yields 0
C5_NonFiniteGetsDefault ==
  pc = "clamped" =>
    \A k \in NumericKeys :
      /\ NonFiniteRaw(raw[k]) => out[k] = DEFAULTS[k]
      /\ raw[k] = Null => out[k] = Num(0)

C5_Witness ==
  /\ pc = "clamped"
  /\ raw.years = Str(Monthly)
  /\ raw.weeklyAmount = Null
  /\ raw.annualReturnPct = NegInf
  /\ out.years = Num(10 * Scale)
  /\ out.weeklyAmount = Num(0)
  /\ out.annualReturnPct = Num(7 * Scale)

\* C6: the returned config has a finite inflationPct >= 0
C6_InflationNonNegative ==
  pc = "clamped" => out.inflationPct.t = "num" /\ out.inflationPct.n >= 0

(***************************************************************************)
(* Properties of simulateDCA (checked under Spec)                          *)
(***************************************************************************)
\* floor(years x periodsPerYear) of the config in use
PeriodsOf(c) == (c.years.n * (IF c.frequency = Str(Monthly) THEN 12 ELSE 52)) \div Scale

\* C7: the loop runs floor(years x periodsPerYear) periods and appends one
\* value to series in each, periodsPerYear being 12 for "monthly", else 52
C7_SeriesLength ==
  /\ pc \in {"loop", "done"} => Len(series) = period - 1
  /\ pc = "done" => Len(series) = PeriodsOf(p)

C7_Witness ==
  /\ pc = "done"
  /\ p.years = Num(150)
  /\ p.frequency = Str(Monthly)
  /\ Len(series) = 18

ZeroCase == p.annualReturnPct = Num(0) /\ p.annualFeePct = Num(0) /\ p.shockPct = Null

\* C8 as stated: with no return, no fee and no shock, finalValue = contributed
\* = periodicAmount x years x periodsPerYear, fractional years included
C8_ZeroReturnExact ==
  pc = "done" /\ ZeroCase =>
    /\ result.finalValue = result.contributed
    /\ result.contributed * Scale
         = p.weeklyAmount.n * p.years.n * (IF p.frequency = Str(Monthly) THEN 12 ELSE 52)

\* C8 amended: with no return, no fee and no shock, finalValue = contributed
\* = periodicAmount x floor(years x periodsPerYear)
C8_ZeroReturnFloor ==
  pc = "done" /\ ZeroCase =>
    /\ result.finalValue = result.contributed
    /\ result.contributed = p.weeklyAmount.n * PeriodsOf(p)

C8_Witness ==
  /\ pc = "done"
  /\ ZeroCase
  /\ p.weeklyAmount = Num(100 * Scale)
  /\ p.years = Num(10)
  /\ p.frequency = Str(Weekly)
  /\ result.finalValue = 500 * Scale
  /\ result.contributed = 500 * Scale

\* C9: a period contributes, then grows, then pays the fee, then takes the
\* shock, then updates peak and drawdown, then checks recovery, then appends
\* to series: the contribution itself grows and pays the fee, and the shock is
\* part of the value the peak, the drawdown and the series see
C9_StepOrder ==
  [][pc = "loop" /\ period' = period + 1 =>
       LET a == p.weeklyAmount.n
           grown == MulRate(portfolio + a, RateScale + rPeriod)
           net == IF feeFactor < RateScale THEN MulRate(grown, feeFactor) ELSE grown
           shocked == shockPeriod = Num(period * Scale)
           v == IF shocked THEN MulRate(net, RateScale + Fraction(p.shockPct.n)) ELSE net
       IN /\ contributed' = contributed + a
          /\ portfolio' = v
          /\ peak' = Max(peak, v)
          /\ (peak' > 0 => maxDrawdown' = Min(maxDrawdown, 0 - DivRate(peak' - v, peak')))
          /\ (recoveryPeriods = Null /\ recoveryPeriods' # Null => v >= preShockPeak'.n)
          /\ series' = Append(series, v)
          /\ (period = 1 /\ ~shocked => series'[1] = net)
  ]_vars

C9_Witness ==
  /\ pc = "loop"
  /\ shockFired # <<>>
  /\ Len(series) = shockFired[1]
  /\ shockFired[1] > 1
  /\ rPeriod > 0
  /\ feeFactor < RateScale
  /\ portfolio > 0
  /\ series[Len(series)] = portfolio
  /\ series[Len(series)] < series[Len(series) - 1]
  /\ maxDrawdown < 0

\* C10: the shock multiplier is applied in at most one period; in exactly one
\* period p, 1 <= p <= totalPeriods, iff a shock is present and at least one
\* period runs; a shock whose period would be 0 fires in period 1
C10_ShockOnce ==
  /\ Len(shockFired) <= 1
  /\ pc = "done" =>
       /\ Len(shockFired) = 1 <=> (ShockPresent(p) /\ PeriodsOf(p) >= 1)
       /\ shockFired # <<>> => 1 <= shockFired[1] /\ shockFired[1] <= PeriodsOf(p)
       /\ ShockPresent(p) /\ PeriodsOf(p) >= 1 /\ p.shockYear.n * periodsPerYear * 2 < Scale
            => shockFired = <<1>>

C10_Witness ==
  /\ pc = "done"
  /\ p.shockYear = Num(0)
  /\ p.shockPct = Num(0 - 30 * Scale)
  /\ totalPeriods > 1
  /\ shockFired = <<1>>

\* Math.round of a number given in hundredths, as an integer
RoundOf(n) == (2 * n + Scale) \div (2 * Scale)

\* C11: with a shock present and at least one period, the shock period is
\* round(shockYear x periodsPerYear) clamped to at least 1 and at most
\* totalPeriods, fractional shock years included
C11_ShockPeriodRounded ==
  pc \in {"loop", "done"} /\ ShockPresent(p) /\ totalPeriods >= 1 =>
    shockPeriod =
      Num(Min(totalPeriods, Max(1, RoundOf(p.shockYear.n * periodsPerYear))) * Scale)

\* C12: the recovery target recorded when the shock fires is the running peak,
\* or the value just before the shock where no peak lies above that value, so
\* the target is never below the value just before the shock
C12_TargetNotBelowPreShockValue ==
  [][shockFired' # shockFired =>
       LET before == Fee(Grow(portfolio + p.weeklyAmount.n, rPeriod), feeFactor)
       IN preShockPeak' = Num(Max(peak, before))
  ]_vars

\* the period that a count of k periods after the shock designates, the shock
\* period counted as 1
RecoveryIndex(k) == shockFired[1] + k - 1

\* C13 as stated: a reported recoveryWeeks k is a positive whole count of
\* periods and the series value k periods into the post-shock count is at
\* least the recorded pre-shock peak, weekly or monthly
C13_RecoveryWeeksIsPeriodCount ==
  pc = "done" /\ result.recoveryWeeks # Null =>
    LET k == result.recoveryWeeks.n \div Scale IN
    /\ result.recoveryWeeks.n = k * Scale
    /\ k >= 1
    /\ shockFired # <<>>
    /\ RecoveryIndex(k) <= Len(series)
    /\ series[RecoveryIndex(k)] >= preShockPeak.n

\* C13 amended: a reported recoveryWeeks is a positive whole number; for
\* weekly frequency it is the count k of periods, for monthly frequency it is
\* 4 x k, and the series value k periods into the post-shock count is at
\* least the recorded pre-shock peak
C13_RecoveryCountReachesTarget ==
  pc = "done" /\ result.recoveryWeeks # Null =>
    LET w == IF p.frequency = Str(Monthly) THEN 4 ELSE 1
        k == result.recoveryWeeks.n \div (w * Scale)
    IN /\ result.recoveryWeeks.n = k * w * Scale
       /\ k >= 1
       /\ shockFired # <<>>
       /\ RecoveryIndex(k) <= Len(series)
       /\ series[RecoveryIndex(k)] >= preShockPeak.n

C13_Witness ==
  /\ pc = "done"
  /\ p.frequency = Str(Monthly)
  /\ result.recoveryWeeks # Null
  /\ result.recoveryWeeks.n > 4 * Scale
  /\ shockFired # <<>>
  /\ shockFired[1] > 1
  /\ series[shockFired[1]] < preShockPeak.n
  /\ preShockPeak.n > 0

\* C14: the recovery count is recorded in the first period at or after the
\* shock whose value reaches the recovery target, is never overwritten, and
\* stays null when no shock fired or the target is not reached
C14_RecoveryRecordedOnce ==
  /\ [](recoveryPeriods # Null =>
          /\ shockFired # <<>>
          /\ RecoveryIndex(recoveryPeriods.n \div Scale) <= Len(series)
          /\ series[RecoveryIndex(recoveryPeriods.n \div Scale)] >= preShockPeak.n
          /\ \A j \in shockFired[1]..(RecoveryIndex(recoveryPeriods.n \div Scale) - 1) :
                series[j] < preShockPeak.n)
  /\ [](recoveryPeriods = Null =>
          \/ shockFired = <<>>
          \/ \A j \in shockFired[1]..Len(series) : series[j] < preShockPeak.n)
  /\ [][recoveryPeriods # Null => recoveryPeriods' = recoveryPeriods]_vars

C14_Witness ==
  /\ pc = "done"
  /\ recoveryPeriods # Null
  /\ recoveryPeriods.n > Scale
  /\ RecoveryIndex(recoveryPeriods.n \div Scale) < Len(series)
  /\ preShockPeak.n > 0

NoShock(c) == [c EXCEPT !.shockPct = Null, !.shockYear = Null]

NoFee(c) == [c EXCEPT !.annualFeePct = Num(0)]

\* C15: the run with a shock ends with a finalValue that is at most the
\* finalValue of the run of the same config without the shock
C15_ShockNeverIncreases ==
  pc = "done" =>
    /\ result.finalValue = FinalValueOf(p)
    /\ ShockPresent(p) => result.finalValue <= FinalValueOf(NoShock(p))

C15_Witness ==
  /\ pc = "done"
  /\ ShockPresent(p)
  /\ p.shockPct.n < 0
  /\ rPeriod > 0
  /\ shockFired # <<>>
  /\ shockFired[1] > 1
  /\ result.finalValue > 0
  /\ result.finalValue < FinalValueOf(NoShock(p))

\* C16: the run with a fee ends with a finalValue that is at most the
\* finalValue of the run of the same config with annualFeePct = 0, weekly
\* and monthly
C16_FeeNeverIncreases ==
  pc = "done" /\ p.annualFeePct.n > 0 =>
    result.finalValue <= FinalValueOf(NoFee(p))

C16_Witness ==
  /\ pc = "done"
  /\ p.annualFeePct.n > 0
  /\ p.frequency = Str(Monthly)
  /\ feeFactor < RateScale
  /\ result.finalValue > 0
  /\ result.finalValue < FinalValueOf(NoFee(p))

\* C17: with years = 0 no period runs and the result is all zero and empty:
\* series and milestones empty, finalValue, contributed, gains and
\* maxDrawdownPct 0, no recovery, also when a shock is configured
C17_ZeroYears ==
  pc = "done" /\ p.years = Num(0) =>
    /\ series = <<>>
    /\ shockFired = <<>>
    /\ DOMAIN milestones = {}
    /\ result.finalValue = 0
    /\ result.contributed = 0
    /\ result.gains = 0
    /\ result.maxDrawdownPct = 0
    /\ result.recoveryWeeks = Null

C17_Witness ==
  /\ pc = "done"
  /\ p.years = Num(0)
  /\ p.weeklyAmount.n > 0
  /\ ShockPresent(p)
  /\ p.frequency = Str(Monthly)
  /\ result.finalValue = 0

\* C18: with annualReturnPct = -100 the portfolio is 0 at the end of every
\* period, weekly and monthly, finalValue is 0 and contributed is
\* periodicAmount x totalPeriods
C18_TotalLoss ==
  pc \in {"loop", "done"} /\ p.annualReturnPct = Num(0 - 100 * Scale) =>
    /\ portfolio = 0
    /\ \A i \in 1..Len(series) : series[i] = 0
    /\ contributed = p.weeklyAmount.n * Len(series)
    /\ pc = "done" =>
         /\ result.finalValue = 0
         /\ result.contributed = p.weeklyAmount.n * PeriodsOf(p)

C18_Witness ==
  /\ pc = "done"
  /\ p.annualReturnPct = Num(0 - 100 * Scale)
  /\ p.frequency = Str(Monthly)
  /\ p.weeklyAmount.n > 0
  /\ Len(series) >= 12
  /\ result.finalValue = 0
  /\ result.contributed > 0

\* C19: weeklyRateFromAnnual gives exactly -1 for an annual return of -100%
\* or less and exactly 0 for 0; weeklyFeeFactorFromAnnual gives exactly 1 for
\* an annual fee of 0 or less and exactly 0 for a fee of 100% or more
C19_RateEdgeCases ==
  /\ conv.fn = "weeklyRateFromAnnual" =>
       /\ conv.arg <= 0 - 100 * Scale => conv.res = 0 - RateScale
       /\ conv.arg = 0 => conv.res = 0
  /\ conv.fn = "weeklyFeeFactorFromAnnual" =>
       /\ conv.arg <= 0 => conv.res = RateScale
       /\ conv.arg >= 100 * Scale => conv.res = 0

C19_Witness ==
  /\ conv.fn = "weeklyFeeFactorFromAnnual"
  /\ conv.arg = 0 - Scale
  /\ conv.res = RateScale

\* C20: the tracked drawdown starts at 0, only moves down, does not move
\* while the peak is 0, and stays within [-1, 0], so that
\* -100 <= maxDrawdownPct <= 0
C20_DrawdownRange ==
  /\ [](/\ 0 - RateScale <= maxDrawdown
        /\ maxDrawdown <= 0
        /\ pc = "ready" => maxDrawdown = 0
        /\ pc = "done" =>
             /\ 0 - 100 * RateScale <= result.maxDrawdownPct
             /\ result.maxDrawdownPct <= 0)
  /\ [][/\ maxDrawdown' <= maxDrawdown
         /\ peak' = 0 => maxDrawdown' = maxDrawdown]_vars

C20_Witness ==
  /\ pc = "done"
  /\ result.maxDrawdownPct < 0 - 90 * RateScale
  /\ result.maxDrawdownPct >= 0 - 100 * RateScale
  /\ peak > 0

\* C21: after a run with years > 0, milestones holds under every whole year y
\* from 1 to floor(totalPeriods / periodsPerYear) the series value at period
\* y x periodsPerYear, under the key years the final value, and no other key
C21_Milestones ==
  pc = "done" /\ p.years.n > 0 =>
    LET whole == 1..(totalPeriods \div periodsPerYear) IN
    /\ DOMAIN milestones = {y * Scale : y \in whole} \cup {p.years.n}
    /\ \A y \in whole : milestones[y * Scale] = series[y * periodsPerYear]
    /\ milestones[p.years.n] = result.finalValue

C21_Witness ==
  /\ pc = "done"
  /\ p.years = Num(150)
  /\ Len(series) = 78
  /\ DOMAIN milestones = {Scale, 150}
  /\ milestones[Scale] = series[52]
  /\ milestones[Scale] # milestones[150]
  /\ milestones[150] = result.finalValue

\* C22: inflationAdjusted is finalValue / (1 + inflationPct/100)^years for the
\* inflationPct of the config; with inflationPct = 0, and with years = 0, it is
\* finalValue itself
C22_InflationAdjusted ==
  pc = "done" /\ p.inflationPct.t = "num" =>
    /\ result.inflationAdjusted =
         Num(DivMoney(result.finalValue,
                      PowFrac(RateScale + Fraction(p.inflationPct.n), p.years.n)))
    /\ p.inflationPct.n = 0 \/ p.years.n = 0 =>
         result.inflationAdjusted = Num(result.finalValue)

\* C23: the returned gains is finalValue - contributed exactly, and finalValue
\* is the last element of series, or 0 when series is empty
C23_GainsIdentity ==
  pc = "done" =>
    /\ result.gains = result.finalValue - result.contributed
    /\ result.finalValue = IF series = <<>> THEN 0 ELSE series[Len(series)]

C23_Witness ==
  /\ pc = "done"
  /\ series # <<>>
  /\ result.gains < 0
  /\ result.finalValue > 0
  /\ result.contributed > result.finalValue
  /\ result.finalValue = series[Len(series)]

\* C27: isRateLimited(user, ms) returns false exactly when the user has no
\* recorded call or at least ms milliseconds have passed since the recorded
\* one; lastCall is set to now by an accepted call and left alone by a rejected
\* one; an accepted call is at least ms after the accepted call of the same
\* user before it that was checked with the same threshold ms
C27_RateLimit ==
  [][call' # call =>
       LET u == call'.user IN
       /\ ~call'.limited <=> (u \notin DOMAIN lastCall \/ now - lastCall[u] >= call'.ms)
       /\ call'.limited => lastCall' = lastCall /\ accepted' = accepted
       /\ ~call'.limited =>
            /\ lastCall' = Put(lastCall, u, now)
            /\ accepted[u] # <<>> /\ accepted[u][2] = call'.ms =>
                 now - accepted[u][1] >= call'.ms]_vars

C27_Witness ==
  /\ call.limited
  /\ call.user = 1
  /\ call.ms = RATE_LIMIT.command
  /\ accepted[1] = <<StartTime + RATE_LIMIT.command, RATE_LIMIT.command>>
  /\ 1 \in DOMAIN lastCall
  /\ lastCall[1] = accepted[1][1]
  /\ now - lastCall[1] = RATE_LIMIT.command - 1

Numeric(P, k) == k <= Len(P) /\ ToNumber(Str(P[k])).t = "num"

IsWord(P, k, w) == k <= Len(P) /\ toLowerCase(P[k]) = w

\* a shock clause starts at token k: shock, a number, at, a number
ShockClauseAt(P, k) ==
  /\ IsWord(P, k, <<"s", "h", "o", "c", "k">>)
  /\ Numeric(P, k + 1)
  /\ IsWord(P, k + 2, <<"a", "t">>)
  /\ Numeric(P, k + 3)

\* C26: parseDcaCommand returns a normalized config for every text; a
\* positional token that is absent or not numeric leaves the default 100, 10
\* or 7; "fee n" after the positional tokens sets the fee to n, clamped; the
\* config has a shock only when the text has a clause of "shock", a number,
\* "at" and a number, and has one when such a clause follows the positional
\* tokens
C26_ParseNormalized ==
  pc = "parsed" =>
    LET P == Split(text) IN
    /\ InRange(out.weeklyAmount, LIMITS.weeklyAmount.min.n, LIMITS.weeklyAmount.max.n)
    /\ InRange(out.years, LIMITS.years.min.n, LIMITS.years.max.n)
    /\ InRange(out.annualReturnPct, LIMITS.annualReturnPct.min.n,
               LIMITS.annualReturnPct.max.n)
    /\ InRange(out.annualFeePct, LIMITS.annualFeePct.min.n, LIMITS.annualFeePct.max.n)
    /\ \/ out.shockPct = Null /\ out.shockYear = Null
       \/ /\ InRange(out.shockPct, LIMITS.shockPct.min.n, LIMITS.shockPct.max.n)
          /\ InRange(out.shockYear, 0, out.years.n)
    /\ out.frequency = DEFAULTS.frequency
    /\ ~Numeric(P, 2) => out.weeklyAmount = DEFAULTS.weeklyAmount
    /\ ~Numeric(P, 3) => out.years = DEFAULTS.years
    /\ ~Numeric(P, 4) => out.annualReturnPct = DEFAULTS.annualReturnPct
    /\ Numeric(P, 2) => out.weeklyAmount = clamp(ToNumber(Str(P[2])),
                                                 LIMITS.weeklyAmount.min,
                                                 LIMITS.weeklyAmount.max)
    /\ (\A k \in 5..Len(P) : ~IsWord(P, k, <<"f", "e", "e">>)) =>
         out.annualFeePct = DEFAULTS.annualFeePct
    /\ /\ IsWord(P, 5, <<"f", "e", "e">>)
       /\ Numeric(P, 6)
       /\ \A k \in 7..Len(P) : ~IsWord(P, k, <<"f", "e", "e">>)
       => out.annualFeePct = clamp(ToNumber(Str(P[6])), LIMITS.annualFeePct.min,
                                   LIMITS.annualFeePct.max)
    /\ out.shockPct # Null => \E k \in 5..Len(P) : ShockClauseAt(P, k)
    /\ ShockClauseAt(P, 5) => out.shockPct # Null
    /\ IsWord(P, 5, <<"f", "e", "e">>) /\ ShockClauseAt(P, 7) => out.shockPct # Null

C26_Witness ==
  /\ pc = "parsed"
  /\ Len(Split(text)) = 10
  /\ SubSeq(text, 17, 19) = <<"F", "E", "E">>
  /\ ShockClauseAt(Split(text), 7)
  /\ Len(text) > 40
  /\ out.annualFeePct = Num(2 * Scale)
  /\ out.shockPct = Num(0)
  /\ out.shockYear = Num(2 * Scale)

\* C25: the run of 100 per week over 10 years at 7% without fee and with a
\* shock of -30% at year 3 ends with a maxDrawdownPct of at most -25 and with a
\* finalValue strictly below the finalValue of the same run without the shock
C25_ShockScenario ==
  pc = "done" =>
    /\ result.finalValue = FinalValueOf(p)
    /\ raw = WithoutFrequency(ShockScenario) =>
         /\ result.maxDrawdownPct <= 0 - 25 * RateScale
         /\ result.finalValue < FinalValueOf(clampParams(WithoutFrequency(NoShockScenario)))

C25_Witness ==
  /\ pc = "done"
  /\ raw = WithoutFrequency(ShockScenario)
  /\ Len(series) = 520
  /\ shockFired = <<156>>
  /\ result.contributed = 52000 * Scale
  /\ result.finalValue > result.contributed

\* what renderCard does after a call of the API, by the fixed order of its
\* fallbacks: the next call, or that it returns, or that the failure propagates
AfterCall(c, updateType) ==
  CASE c.api = "editMessageMedia" ->
         IF c.ok THEN "answerCbQuery" ELSE "replyWithPhoto"
    [] c.api = "replyWithPhoto" ->
         IF ~c.ok THEN "replyCaption"
         ELSE IF updateType = "callback_query" THEN "answerCbQuery" ELSE "return"
    [] c.api = "replyCaption" -> IF c.ok THEN "replyChart" ELSE "throw"
    [] c.api = "replyChart" ->
         IF ~c.ok THEN "throw"
         ELSE IF updateType = "callback_query" THEN "answerCbQuery" ELSE "return"
    [] OTHER -> "return"

\* C28: renderCard sends in a fixed order: for a command replyWithPhoto, and
\* on its failure the caption as text followed by the chart URL; for a callback
\* query editMessageMedia, on its failure replyWithPhoto, on that failure the
\* caption as text followed by the chart URL, and then answerCbQuery; a failure
\* propagates only from the text fallback, the last one
C28_RenderCardFallback ==
  inv.card # NoCard =>
    LET c == inv.card.calls IN
    /\ c # <<>>
    /\ c[1].api = IF inv.updateType = "callback_query" THEN "editMessageMedia"
                  ELSE "replyWithPhoto"
    /\ \A i \in 1..(Len(c) - 1) : c[i + 1].api = AfterCall(c[i], inv.updateType)
    /\ AfterCall(c[Len(c)], inv.updateType) \in {"return", "throw"}
    /\ inv.card.thrown <=> AfterCall(c[Len(c)], inv.updateType) = "throw"
    /\ inv.updateType = "callback_query" /\ ~inv.card.thrown =>
         c[Len(c)].api = "answerCbQuery"

C28_Witness ==
  /\ inv.handler = "years"
  /\ inv.updateType = "callback_query"
  /\ Len(inv.card.calls) = 5
  /\ ~inv.card.calls[1].ok
  /\ ~inv.card.calls[2].ok
  /\ inv.card.calls[4] = [api |-> "replyChart", ok |-> TRUE]
  /\ inv.card.calls[5].api = "answerCbQuery"
  /\ ~inv.thrown

\* C29: every invocation of a callback-query handler calls answerCbQuery at
\* least once before it finishes
C29_AlwaysAnswers ==
  inv.updateType = "callback_query" =>
    \E i \in 1..Len(inv.calls) : inv.calls[i].api = "answerCbQuery"

\* C30: a handler that runs simulateDCA or writes userState has called
\* isRateLimited for the calling user first and was not limited, and a limited
\* handler does nothing further
C30_AllRateLimited ==
  /\ inv.sims > 0 \/ inv.wrote => inv.checked /\ ~inv.limited
  /\ inv.limited => inv.sims = 0 /\ ~inv.wrote /\ inv.calls = <<>>

\* C31: an accepted press of the button Worse (shockpct:-10) by a user whose
\* shock is on with percentage s stores max(-95, s - 10) as shockPct and leaves
\* every other parameter as it was; with no shock on userState is unchanged
C31_WorseByTen ==
  [][inv'.handler = "shockpct" /\ inv'.update = inv.update + 1
       /\ inv'.user # 0 /\ ~inv'.limited =>
       LET cur == Current(userState, inv'.user) IN
       IF cur.shockPct # Null
       THEN /\ inv'.user \in DOMAIN userState'
            /\ userState'[inv'.user] =
                 [cur EXCEPT !.shockPct = Num(Max(0 - 95 * Scale, cur.shockPct.n - 10 * Scale))]
       ELSE userState' = userState
  ]_vars

\* C32: for every series of 0 to 2600 values quickChartUrl samples at most
\* maxPoints values, the first of them the first value of the series
C32_ChartDownsampled ==
  chart.called =>
    /\ Len(chart.sampled) <= maxPoints
    /\ chart.series # <<>> =>
         chart.sampled # <<>> /\ chart.sampled[1] = MathRound(chart.series[1])

\* C34: a run of cleanupStaleSessions that deletes an entry deletes the
\* lastCall and userState entries of exactly the users whose lastCall timestamp
\* is more than maxAge older than now, and leaves every other entry as it was
C34_CleanupExact ==
  [][DOMAIN lastCall \ DOMAIN lastCall' # {} \/ DOMAIN userState \ DOMAIN userState' # {} =>
       LET old == {u \in DOMAIN lastCall : now - lastCall[u] > RATE_LIMIT.maxAge} IN
       /\ DOMAIN lastCall' = DOMAIN lastCall \ old
       /\ DOMAIN userState' = DOMAIN userState \ old
       /\ \A u \in DOMAIN lastCall' : lastCall'[u] = lastCall[u]
       /\ \A u \in DOMAIN userState' : userState'[u] = userState[u]
  ]_<<lastCall, userState>>

C34_Witness ==
  /\ DOMAIN lastCall = {2}
  /\ DOMAIN userState = {2}
  /\ now - lastCall[2] = RATE_LIMIT.maxAge
  /\ accepted[1] # <<>>
  /\ now - accepted[1][1] > RATE_LIMIT.maxAge

\* C33: a userState entry of a user whose last update is more than maxAge
\* ago is eventually deleted, unless another update comes in first
C33_SessionsExpire ==
  \A u \in Senders \ {0} : \A k \in 0..MaxUpdates :
    (u \in DOMAIN userState /\ inv.update = k /\ now - seen[u] > RATE_LIMIT.maxAge)
      ~> (u \notin DOMAIN userState \/ inv.update # k)

\* C35: every value stored in userState is a normalized config: it equals
\* its own clampParams image
C35_StoredNormalized ==
  \A u \in DOMAIN userState : userState[u] = clampParams(userState[u])

\* the parameter change of a handler, applied on its own to the Map us
Change(task, us) ==
  IF task.handler = "years"
  THEN years(Entered(NoEntries, us), 1, task.delta, {}, StartTime).userState
  ELSE mixAmt(Entered(NoEntries, us), 1, task.delta,
              CHOOSE parts \in Mixes : Allocations(parts) # <<>>, {}).userState

\* the changes of the handlers order[1], order[2], ... applied one after another
RECURSIVE Serial(_, _)
Serial(order, us) ==
  IF order = <<>> THEN us ELSE Serial(Tail(order), Change(tasks[Head(order)], us))

\* the handlers that have passed the rate limit and written userState
Written == {i \in 1..Len(tasks) : tasks[i].wrote}

\* C36: whatever the interleaving of the handlers of one user at their awaits,
\* userState is what the parameter changes of the handlers that have written
\* give when applied one after another in some order
C36_NoLostUpdate ==
  \E order \in [1..Cardinality(Written) -> Written] :
    /\ \A i, j \in DOMAIN order : order[i] = order[j] => i = j
    /\ userState = Serial(order, NoEntries)

C36_Witness ==
  /\ Len(tasks) = 2
  /\ tasks[1].handler = "mix:amt" /\ tasks[1].stage = "done"
  /\ tasks[2].handler = "years" /\ tasks[2].stage = "sending"
  /\ tasks[1].entry = NoEntries /\ tasks[2].entry = NoEntries
  /\ userState[1].weeklyAmount = Num(150 * Scale)
  /\ userState[1].years = Num(11 * Scale)

\* the largest value of a series, 0 for the empty one
Largest(s) ==
  IF s = <<>> THEN 0
  ELSE LET i == CHOOSE i \in 1..Len(s) : \A j \in 1..Len(s) : s[i] >= s[j] IN s[i]

\* C37: at the end of every period the portfolio value is at least 0, peak is
\* the largest series value recorded so far, so at least the current value, and
\* never decreases, and contributed is the periodic amount times the number of
\* periods run
C37_PeriodInvariants ==
  /\ [](pc \in {"loop", "done"} =>
          /\ portfolio >= 0
          /\ peak = Largest(series)
          /\ peak >= portfolio
          /\ Len(series) = period - 1
          /\ series # <<>> => series[Len(series)] = portfolio
          /\ contributed = p.weeklyAmount.n * Len(series))
  /\ [][pc = "loop" => peak' >= peak]_vars

C37_Witness ==
  /\ pc = "loop"
  /\ Len(series) > 60
  /\ shockFired # <<>>
  /\ peak > portfolio
  /\ portfolio > series[shockFired[1]]
  /\ contributed > 0

\* C38: clampParams applied to its own result returns that result, and the
\* call leaves its argument as it was; so a stored config that simulateDCA
\* clamps again is simulated as stored
C38_ClampIdempotent ==
  /\ [](pc = "clamped" => clampParams(out) = out /\ out = clampParams(raw))
  /\ [][raw' = raw]_vars

C38_Witness ==
  /\ pc = "clamped"
  /\ raw.years = Num(60 * Scale)
  /\ raw.shockYear = Num(2000000 * Scale)
  /\ raw.shockPct = Undefined
  /\ out # Spread(raw)
  /\ out.shockYear = Num(50 * Scale)
  /\ clampParams(out).shockPct = Num(0 - 30 * Scale)

\* C39: after /mix has normalized allocations whose percentages did not sum
\* to 100, the percentages sum to exactly 100
C39_MixSumsTo100 ==
  mix.called /\ mix.allocations # <<>> => TotalPct(mix.allocations) = 100 * Scale

SharedFields ==
  {"weeklyAmount", "years", "annualReturnPct", "annualFeePct", "shockPct", "shockYear"}

\* C40: the command that the share button shows for a stored normalized
\* config, parsed by parseDcaCommand, gives the weeklyAmount, years,
\* annualReturnPct, annualFeePct, shockPct and shockYear of that config
C40_ShareRoundTrip ==
  pc = "parsed" /\ inv.handler = "share" =>
    /\ text = shareCommand(userState[inv.user])
    /\ \A k \in SharedFields : out[k] = userState[inv.user][k]

C40_Witness ==
  /\ pc = "parsed"
  /\ inv.handler = "share"
  /\ userState[1].annualFeePct = Num(3)
  /\ userState[1].annualReturnPct = Num(0 - 5 * Scale)
  /\ userState[1].shockPct = Num(0 - 35 * Scale - Scale \div 2)
  /\ userState[1].weeklyAmount = Num(99 * Scale + Scale \div 2)
  /\ text = <<"/", "d", "c", "a", " ", "9", "9", ".", "5", " ", "1", "0", " ", "-", "5",
              " ", "f", "e", "e", " ", "0", ".", "0", "3", " ", "s", "h", "o", "c", "k",
              " ", "-", "3", "5", ".", "5", " ", "a", "t", " ", "2">>
  /\ out.shockPct = userState[1].shockPct

====
